---- MODULE Spec2Model ----
(***************************************************************************)
(* A model of the document pipeline of Justice Made Clear                  *)
(* (src/backend/services): the hybrid ClassificationService, the           *)
(* SimplificationService whose outcome is bound to the literal FALLO, and  *)
(* the SafetyCheckService that compares a rewrite with its original.       *)
(*                                                                         *)
(* Python str values are TLA+ strings; `x in s`, s.upper(), s.strip() and  *)
(* re.search(r"\bW\b", s) are computed character by character.  Python's   *)
(* None is the empty tuple None and a present value v is Some(v) = <<v>>.  *)
(* Confidences are integers in hundredths (0.8 is 80).                     *)
(***************************************************************************)
EXTENDS Integers, Sequences, FiniteSets, TLC

VARIABLES
    sDoc,       \* simplify: the SegmentedDocument handed to simplify()
    sRun,       \* simplify: per run, the external outcome and the result
    cDoc,       \* classify: the SegmentedDocument handed to classify()
    cCfg,       \* classify: rule_threshold / force_llm_threshold / client shape
    cPc,        \* classify: position inside classify()
    cRule,      \* classify: rule_result (local of classify)
    cLlm,       \* classify: llm_result (local of classify), None or Some(result)
    cCalls,     \* classify: number of invocations of the external capability
    cFail,      \* classify: what the except clause of _llm_classification caught
    cOut,       \* classify: value returned by classify(), None before it returns
    eIn,        \* evaluate: original, simplification, legal_guide and client shape
    ePc,        \* evaluate: position inside evaluate()
    eRules,     \* evaluate: locals of _rule_based_flags and rule_flags
    eLlm,       \* evaluate: llm_output, None or Some(dict)
    eFail,      \* evaluate: how the external verification ended
    eOut,       \* evaluate: the SafetyCheckResult returned, None before it returns
    nIn,        \* normalize: the IngestResult handed to normalize() (mutable)
    nPc,        \* normalize: position inside normalize()
    nClean,     \* normalize: the local `cleaned`, None before it is computed
    nFallo,     \* normalize: the local `fallo`, None or Some(clause)
    nOut,       \* normalize: the SegmentedDocument returned, None before it returns
    nErr,       \* normalize: the exception raised, None when there is none
    lIn,        \* LLM client: the operation called, its text, settings and the provider's replies
    lPc,        \* LLM client: position inside the operation
    lPosts,     \* LLM client: number of requests.post calls made
    lOut,       \* LLM client: what the operation returned or raised, None before
    pIn,        \* pipeline: how the external capability behaves at each stage
    pPc,        \* pipeline: the stage process_document is about to run
    pOut        \* pipeline: the response returned or the exception that left the handler

svars == <<sDoc, sRun>>
cvars == <<cDoc, cCfg, cPc, cRule, cLlm, cCalls, cFail, cOut>>
evars == <<eIn, ePc, eRules, eLlm, eFail, eOut>>
nvars == <<nIn, nPc, nClean, nFallo, nOut, nErr>>
lvars == <<lIn, lPc, lPosts, lOut>>
pvars == <<pIn, pPc, pOut>>
vars == <<sDoc, sRun, cDoc, cCfg, cPc, cRule, cLlm, cCalls, cFail, cOut,
          eIn, ePc, eRules, eLlm, eFail, eOut,
          nIn, nPc, nClean, nFallo, nOut, nErr,
          lIn, lPc, lPosts, lOut, pIn, pPc, pOut>>

----------------------------------------------------------------------------
(* Python values *)

None == <<>>
Some(v) == <<v>>
IsNone(o) == o = <<>>
Val(o) == o[1]

\* `o or ""` for an optional string
OrEmpty(o) == IF IsNone(o) THEN "" ELSE Val(o)

\* the truth value of an optional string: None and "" are falsy
Truthy(o) == ~IsNone(o) /\ Val(o) # ""

Char(s, i) == SubSeq(s, i, i)

\* needle in hay
Contains(hay, needle) ==
    \E i \in 1..(Len(hay) - Len(needle) + 1) :
        SubSeq(hay, i, i + Len(needle) - 1) = needle

LowerLetters == "abcdefghijklmnopqrstuvwxyz"
UpperLetters == "ABCDEFGHIJKLMNOPQRSTUVWXYZ"
Digits == "0123456789"

LowerSet == {Char(LowerLetters, i) : i \in 1..Len(LowerLetters)}
WordCharSet ==
    LowerSet \cup {Char(UpperLetters, i) : i \in 1..Len(UpperLetters)}
             \cup {Char(Digits, i) : i \in 1..Len(Digits)} \cup {"_"}
UpperMap ==
    [c \in LowerSet |->
        Char(UpperLetters, CHOOSE j \in 1..Len(LowerLetters) : Char(LowerLetters, j) = c)]

UpperChar(c) == IF c \in LowerSet THEN UpperMap[c] ELSE c

\* s.upper()
RECURSIVE Upper(_)
Upper(s) ==
    IF Len(s) = 0 THEN ""
    ELSE UpperChar(Char(s, 1)) \o Upper(SubSeq(s, 2, Len(s)))

\* Characters that have no escape in a string: vertical tab (0x0B), the
\* file, group, record and unit separators (0x1C-0x1F), next line (0x85),
\* no-break space (0xA0) and ogham space mark (0x1680)
VerticalTab == ""
FileSeparator == ""
GroupSeparator == ""
RecordSeparator == ""
UnitSeparator == ""
NextLine == ""
NoBreakSpace == " "
OghamSpace == " "

\* the characters of str.isspace, str.strip() and the regex class \s, up
\* to 0x1FFF (a string of the model holds no character of 0x2000-0x3000,
\* where the other ones are)
WhiteSpace ==
    {" ", "\t", "\n", "\r", "\f", VerticalTab,
     FileSeparator, GroupSeparator, RecordSeparator, UnitSeparator,
     NextLine, NoBreakSpace, OghamSpace}

IsSpace(c) == c \in WhiteSpace

RECURSIVE LStrip(_)
LStrip(s) ==
    IF Len(s) > 0 /\ IsSpace(Char(s, 1)) THEN LStrip(SubSeq(s, 2, Len(s))) ELSE s

RECURSIVE RStrip(_)
RStrip(s) ==
    IF Len(s) > 0 /\ IsSpace(Char(s, Len(s)))
    THEN RStrip(SubSeq(s, 1, Len(s) - 1)) ELSE s

\* s.strip()
Strip(s) == RStrip(LStrip(s))

\* a character of the regex class \w
IsWordChar(c) == c \in WordCharSet

\* re.search(r"\bW\b", s) for a word W made of word characters
SearchWord(s, w) ==
    \E i \in 1..(Len(s) - Len(w) + 1) :
        /\ SubSeq(s, i, i + Len(w) - 1) = w
        /\ (i = 1 \/ ~IsWordChar(Char(s, i - 1)))
        /\ (i + Len(w) > Len(s) \/ ~IsWordChar(Char(s, i + Len(w))))

\* sep.join(parts)
RECURSIVE Join(_, _)
Join(parts, sep) ==
    IF Len(parts) = 0 THEN ""
    ELSE IF Len(parts) = 1 THEN parts[1]
    ELSE parts[1] \o sep \o Join(Tail(parts), sep)

\* the sequences over S of length at most n
SeqUpTo(S, n) == UNION {[1..k -> S] : k \in 0..n}

\* the line boundaries of str.splitlines, up to 0x1FFF (the other two are
\* 0x2028 and 0x2029)
LineBreaks ==
    {"\n", "\r", "\f", VerticalTab, FileSeparator, GroupSeparator, RecordSeparator,
     NextLine}

\* the position of the first line boundary of s, 0 when there is none
FirstLineBreak(s) ==
    IF \E i \in 1..Len(s) : Char(s, i) \in LineBreaks
    THEN CHOOSE j \in 1..Len(s) :
             Char(s, j) \in LineBreaks /\ \A k \in 1..(j - 1) : Char(s, k) \notin LineBreaks
    ELSE 0

\* the length of the line boundary at position i: "\r\n" is one boundary
LineBreakLen(s, i) ==
    IF Char(s, i) = "\r" /\ i < Len(s) /\ Char(s, i + 1) = "\n" THEN 2 ELSE 1

\* text.splitlines(): no empty last line after a final boundary
RECURSIVE SplitLines(_)
SplitLines(s) ==
    IF Len(s) = 0 THEN << >>
    ELSE IF FirstLineBreak(s) = 0 THEN << s >>
    ELSE << SubSeq(s, 1, FirstLineBreak(s) - 1) >>
         \o SplitLines(SubSeq(s, FirstLineBreak(s) + LineBreakLen(s, FirstLineBreak(s)), Len(s)))

\* seq[:n]
Take(seq, n) == SubSeq(seq, 1, IF Len(seq) < n THEN Len(seq) ELSE n)

\* [ln for ln in lines if ln.strip()]
RECURSIVE NonBlankLines(_)
NonBlankLines(lines) ==
    IF Len(lines) = 0 THEN << >>
    ELSE (IF Strip(lines[1]) # "" THEN << lines[1] >> ELSE << >>)
         \o NonBlankLines(Tail(lines))

InSeq(x, seq) == \E i \in 1..Len(seq) : seq[i] = x

Min(a, b) == IF a < b THEN a ELSE b
Max(a, b) == IF a > b THEN a ELSE b

----------------------------------------------------------------------------
(* SimplificationService  (services/simplification_service.py) *)

\* Number of operative phrases put together to form a falloLiteral
MaxFrags == 2

\* Phrases a FALLO is composed of (the patterns of the rules, in both cases,
\* and neutral text)
FalloPhrases ==
    { "SE DESESTIMA",
      "se desestima la demanda",
      "SE ESTIMA",
      "SE ESTIMA PARCIALMENTE",
      "RECHAZA COMPLETAMENTE",
      "COSTAS A LA PARTE ACTORA",
      "costas a la demandada",
      "SIN ESPECIAL PRONUNCIAMIENTO",
      "el recurso",
      "FALLO:" }

\* The literal clauses: the phrases joined by single spaces ("" for none)
FalloClauses == {Join(fs, " ") : fs \in SeqUpTo(FalloPhrases, MaxFrags)}

\* MAX_CHARS / HARD_LIMIT of SimplificationService
MAX_CHARS == 12000
HARD_LIMIT == 16000

\* The length of the long text of test_simplification_truncates_long_text
LongTextLength == 13000

RECURSIVE Repeat(_, _)
Repeat(s, n) ==
    IF n = 0 THEN ""
    ELSE IF n % 2 = 1 THEN s \o Repeat(s, n - 1)
    ELSE LET half == Repeat(s, n \div 2) IN half \o half

\* The clause of the documents whose text is long
LongTextClause == "FALLO: SE ESTIMA. COSTAS A LA PARTE DEMANDADA"

\* Document texts: a short one, the test's 13,000 characters, and a text
\* longer than HARD_LIMIT whose clause lies after the cut
ShortText == "texto"
LongText == Repeat("a", LongTextLength)
TextWithClauseAfterCut == Repeat("a", HARD_LIMIT) \o "\n" \o LongTextClause
RawOnlyText == "raw text"

\* A document as simplify() reads it: normalizedText, rawText and the attributes
\* falloLiteral and fallbackFallo (None when the attribute is absent or None)
SimplifyDocuments ==
    {[normalizedText |-> ShortText, rawText |-> ShortText,
      falloLiteral |-> f, fallbackFallo |-> None] :
        f \in {None} \cup {Some(c) : c \in FalloClauses}}
    \cup {[normalizedText |-> t, rawText |-> t,
           falloLiteral |-> f, fallbackFallo |-> None] :
            t \in {LongText, TextWithClauseAfterCut},
            f \in {None, Some(LongTextClause)}}
    \cup {[normalizedText |-> "", rawText |-> r,
           falloLiteral |-> None, fallbackFallo |-> None] :
            r \in {"", RawOnlyText}}

\* getattr(document, "falloLiteral", None) or getattr(document, "fallbackFallo", None)
\* (a falsy right operand is returned as it is)
fallo_literal_of(document) ==
    IF Truthy(document.falloLiteral) THEN document.falloLiteral
    ELSE document.fallbackFallo

\* What the external capability may answer to the rewrite request, as
\* _client._parse_json returns it.  A payload is a JSON value: a dict with
\* optional members, or a value that is no dict.
NoHeader == None
NoParties == None

PayloadClaimantWins ==
    [isDict |-> TRUE,
     headerSummary |-> Some([court |-> "Juzgado 1", date |-> "10/05/2024",
                              caseNumber |-> "12/2024", resolutionNumber |-> "",
                              procedureType |-> "", judge |-> "Ana"]),
     partiesSummary |-> Some([plaintiff |-> "Luis", plaintiffRepresentatives |-> "Proc. A",
                               defendant |-> "Banco", defendantRepresentatives |-> ""]),
     proceduralContext |-> Some("Se presento demanda."),
     decisionFallo |-> Some([whoWins |-> Some("actora"), costs |-> Some("demandado"),
                              plainText |-> Some("Has ganado el caso.")])]

PayloadRespondentWins ==
    [isDict |-> TRUE,
     headerSummary |-> NoHeader,
     partiesSummary |-> NoParties,
     proceduralContext |-> None,
     decisionFallo |-> Some([whoWins |-> Some("demandado"), costs |-> Some("actora"),
                              plainText |-> None])]

\* A payload whose procedural-context prose holds lines that look like the
\* outcome block of the report
PayloadWithReportLines ==
    [isDict |-> TRUE,
     headerSummary |-> NoHeader,
     partiesSummary |-> NoParties,
     proceduralContext |->
         Some("Se presento demanda.\n\n[4] Resultado del caso (segun el FALLO)\n- Quien gana: actora"),
     decisionFallo |-> None]

PayloadEmptyDict ==
    [isDict |-> TRUE, headerSummary |-> NoHeader, partiesSummary |-> NoParties,
     proceduralContext |-> None, decisionFallo |-> None]

PayloadNotADict ==
    [isDict |-> FALSE, headerSummary |-> NoHeader, partiesSummary |-> NoParties,
     proceduralContext |-> None, decisionFallo |-> None]

\* The payloads _normalize_payload is applied to
RewritePayloads ==
    { PayloadEmptyDict, PayloadNotADict, PayloadClaimantWins,
      PayloadRespondentWins, PayloadWithReportLines }

\* Outcomes of the external call of _call_llm: chat raises, _parse_json raises,
\* or a JSON value comes back
RewriteOutcomes ==
    { [kind |-> "chat_error", data |-> PayloadEmptyDict],
      [kind |-> "parse_error", data |-> PayloadEmptyDict] }
    \cup { [kind |-> "json", data |-> payload] : payload \in RewritePayloads }

\* The try block of _call_llm: the parsed payload, {} when the call or the
\* parse raises
call_llm(outcome) ==
    IF outcome.kind = "json" THEN outcome.data ELSE PayloadEmptyDict

\* _derive_decision_from_fallo: <<whoWins, costs>>
derive_decision_from_fallo(fallo_literal) ==
    IF ~Truthy(fallo_literal) THEN <<"desconocido", "desconocido">>
    ELSE
    LET upper == Upper(Val(fallo_literal))
        who ==
            IF Contains(upper, "SE ESTIMA PARCIAL") \/ Contains(upper, "ESTIMA PARCIAL")
            THEN "parcial"
            ELSE IF Contains(upper, "SE ESTIMA") \/ Contains(upper, "ESTIMA LA DEMANDA")
            THEN "actora"
            ELSE IF \/ Contains(upper, "SE DESESTIMA")
                    \/ Contains(upper, "DESESTIMA LA DEMANDA")
                    \/ Contains(upper, "RECHAZA COMPLETAMENTE")
            THEN "demandado"
            ELSE "desconocido"
        costs ==
            IF \/ Contains(upper, "COSTAS A LA PARTE ACTORA")
               \/ Contains(upper, "COSTAS A LA ACTORA")
            THEN "actora"
            ELSE IF \/ Contains(upper, "COSTAS A LA PARTE DEMANDADA")
                    \/ Contains(upper, "COSTAS A LA DEMANDADA")
            THEN "demandado"
            ELSE IF Contains(upper, "SIN ESPECIAL PRONUNCIAMIENTO")
            THEN "sin_costas"
            ELSE "desconocido"
    IN <<who, costs>>

\* decision.get("plainText") or (fallo_literal or "")
plain_text_of(decision, fallo_literal) ==
    IF ~IsNone(decision) /\ Truthy(Val(decision).plainText)
    THEN Val(Val(decision).plainText)
    ELSE OrEmpty(fallo_literal)

\* A faulty variant that keeps the winner and costs proposed by the payload
decision_struct_trusting_payload(decision, fallo_literal) ==
    LET d == derive_decision_from_fallo(fallo_literal)
    IN [whoWins |-> IF ~IsNone(decision) /\ Truthy(Val(decision).whoWins)
                    THEN Val(Val(decision).whoWins) ELSE d[1],
        costs |-> IF ~IsNone(decision) /\ Truthy(Val(decision).costs)
                  THEN Val(Val(decision).costs) ELSE d[2],
        plainText |-> plain_text_of(decision, fallo_literal),
        falloLiteral |-> OrEmpty(fallo_literal)]

\* decision_struct of _normalize_payload: whoWins / costs overridden from the
\* literal clause
decision_struct(decision, fallo_literal) ==
    LET d == derive_decision_from_fallo(fallo_literal)
    IN [whoWins |-> d[1],
        costs |-> d[2],
        plainText |-> plain_text_of(decision, fallo_literal),
        falloLiteral |-> OrEmpty(fallo_literal)]

EmptyHeader ==
    [court |-> "", date |-> "", caseNumber |-> "", resolutionNumber |-> "",
     procedureType |-> "", judge |-> ""]

EmptyParties ==
    [plaintiff |-> "", plaintiffRepresentatives |-> "",
     defendant |-> "", defendantRepresentatives |-> ""]

\* _normalize_payload
normalize_payload(payload, fallo_literal) ==
    LET data == IF payload.isDict THEN payload ELSE PayloadEmptyDict
        header == IF IsNone(data.headerSummary) THEN EmptyHeader
                  ELSE Val(data.headerSummary)
        parties == IF IsNone(data.partiesSummary) THEN EmptyParties
                   ELSE Val(data.partiesSummary)
        procedural == OrEmpty(data.proceduralContext)
    IN [headerSummary |-> header,
        partiesSummary |-> parties,
        proceduralContext |-> procedural,
        decisionFallo |-> decision_struct(data.decisionFallo, fallo_literal)]

\* _render_simplified_text
render_simplified_text(data, doc_type, doc_subtype) ==
    LET h == data.headerSummary
        p == data.partiesSummary
        d == data.decisionFallo
        lines ==
            << "[1] Datos del caso",
               "- Fecha: " \o h.date,
               "- Juzgado: " \o h.court,
               "- Jueza/Juez: " \o h.judge,
               "- Numero de caso: " \o h.caseNumber,
               "- Numero de resolucion: " \o h.resolutionNumber,
               "- Tipo de documento: " \o doc_type \o " - " \o doc_subtype,
               "",
               "[2] Partes involucradas",
               "- Demandante: " \o p.plaintiff >>
            \o (IF p.plaintiffRepresentatives # ""
                THEN << "  Representantes: " \o p.plaintiffRepresentatives >> ELSE << >>)
            \o << "- Demandado: " \o p.defendant >>
            \o (IF p.defendantRepresentatives # ""
                THEN << "  Representantes: " \o p.defendantRepresentatives >> ELSE << >>)
            \o << "",
                  "[3] Lo que paso antes (contexto procesal)",
                  data.proceduralContext,
                  "",
                  "[4] Resultado del caso (segun el FALLO)",
                  "- Quien gana: " \o d.whoWins,
                  "- Costas: " \o d.costs,
                  "- Resumen breve: " \o d.plainText >>
            \o (IF d.falloLiteral # ""
                THEN << "- Fallo literal:", d.falloLiteral >> ELSE << >>)
            \o << "" >>
    IN Strip(Join(lines, "\n"))

\* The classification simplify() is given in this model
SimplifyDocType == "RESOLUCION_JURIDICA"
SimplifyDocSubtype == "SENTENCIA"

\* no SimplificationResult (nothing returned) and no decision_dict
NoSimplification == [simplifiedText |-> "", truncated |-> FALSE, warnings |-> << >>]
NoDecisionDict == [whoWins |-> "", costs |-> "", plainText |-> "", falloLiteral |-> ""]

\* The local decision_dict of simplify(): the decision of the structured
\* payload.  It is handed to SimplificationResult as decisionFallo, a field
\* the schema does not declare, so the returned object does not carry it.
decision_dict(payload, fallo_literal) ==
    normalize_payload(payload, fallo_literal).decisionFallo

\* What simplify() makes of a payload: _normalize_payload, then
\* _render_simplified_text, then the SimplificationResult with
\* truncated=False and warnings=[] (of its declared fields, the ones that
\* depend on the payload or the text)
structured_result(payload, fallo_literal) ==
    [simplifiedText |->
        render_simplified_text(normalize_payload(payload, fallo_literal),
                               SimplifyDocType, SimplifyDocSubtype),
     truncated |-> FALSE,
     warnings |-> << >>]

\* document.normalizedText or document.rawText or ""
text_of(document) ==
    IF document.normalizedText # "" THEN document.normalizedText
    ELSE document.rawText

\* The text _call_llm sends: cut at HARD_LIMIT
text_for_llm(document) ==
    IF Len(text_of(document)) > HARD_LIMIT
    THEN SubSeq(text_of(document), 1, HARD_LIMIT)
    ELSE text_of(document)

\* The keyword arguments _call_llm passes to simplification_prompt.user_prompt
\* and the parameters user_prompt declares: an argument that is not a
\* parameter makes the call raise TypeError, before the try block
PromptKeywordArguments == {"doc_type", "doc_subtype", "fallo_literal", "metadata", "parties"}
UserPromptParameters == {"text", "doc_type", "doc_subtype"}

user_prompt_raises == ~(PromptKeywordArguments \subseteq UserPromptParameters)

\* simplify(): the exception it raises, or the SimplificationResult for one
\* outcome of the external call
simplify(document, outcome) ==
    LET fallo_literal == fallo_literal_of(document)
        text == text_for_llm(document)
    IN IF user_prompt_raises
       THEN [raised |-> "TypeError", sent |-> "",
             decision |-> NoDecisionDict, result |-> NoSimplification]
       ELSE [raised |-> "", sent |-> text,
             decision |-> decision_dict(call_llm(outcome), fallo_literal),
             result |-> structured_result(call_llm(outcome), fallo_literal)]

\* Two runs of simplify on the same document
Runs == {"A", "B"}

NoOutcome == [kind |-> "none", data |-> PayloadEmptyDict]

\* a run that has called nothing yet / that is not part of the behaviour
NotRun ==
    [state |-> "ready", outcome |-> NoOutcome,
     decision |-> NoDecisionDict, result |-> NoSimplification]
IdleRun ==
    [state |-> "idle", outcome |-> NoOutcome,
     decision |-> NoDecisionDict, result |-> NoSimplification]

InitSimplifyVars ==
    /\ sDoc \in SimplifyDocuments
    /\ sRun = [r \in Runs |-> NotRun]

IdleSimplifyVars ==
    /\ sDoc = [normalizedText |-> "", rawText |-> "",
               falloLiteral |-> None, fallbackFallo |-> None]
    /\ sRun = [r \in Runs |-> IdleRun]

\* One call of SimplificationService.simplify: it ends "returned" with a
\* result, or "raised".  The outcome of the external call is recorded when
\* the call is reached.
Simplify(r) ==
    /\ sRun[r].state = "ready"
    /\ \E outcome \in RewriteOutcomes :
          LET call == simplify(sDoc, outcome)
          IN sRun' = [sRun EXCEPT ![r] =
                         [state |-> IF call.raised = "" THEN "returned" ELSE "raised",
                          outcome |-> IF call.raised = "" THEN outcome ELSE NoOutcome,
                          decision |-> call.decision,
                          result |-> call.result]]
    /\ UNCHANGED <<sDoc, cvars, evars, nvars, lvars, pvars>>

NextSimplify == \E r \in Runs : Simplify(r)

\* The helpers called directly, as pure functions of a payload and a clause:
\* _normalize_payload(payload, fallo_literal), then
\* _render_simplified_text(structured, doc_type, doc_subtype).  The run
\* records the payload, the decisionFallo of the structured payload and the
\* rendered text.
RenderPayload(r) ==
    /\ sRun[r].state = "ready"
    /\ \E payload \in RewritePayloads :
          \E structured \in {normalize_payload(payload, fallo_literal_of(sDoc))} :
              sRun' = [sRun EXCEPT ![r] =
                          [state |-> "rendered",
                           outcome |-> [kind |-> "payload", data |-> payload],
                           decision |-> structured.decisionFallo,
                           result |-> [NoSimplification EXCEPT !.simplifiedText =
                                          render_simplified_text(structured,
                                              SimplifyDocType, SimplifyDocSubtype)]]]
    /\ UNCHANGED <<sDoc, cvars, evars, nvars, lvars, pvars>>

NextRender == \E r \in Runs : RenderPayload(r)

----------------------------------------------------------------------------
(* ClassificationService  (services/classification_service.py) *)

\* TYPE_KEYWORDS, in the dict's order
TYPE_KEYWORDS ==
    << [name |-> "RESOLUCION_JURIDICA",
        keywords |-> << "SENTENCIA", "FALLO", "AUTO", "DECRETO", "RESUELVO" >>],
       [name |-> "ESCRITO_PROCESAL",
        keywords |-> << "DEMANDA", "ESCRITO", "RECURSO", "SUPLICO", "SOLICITO" >>] >>

\* SUBTYPE_KEYWORDS, in the dict's order
SUBTYPE_KEYWORDS ==
    << [name |-> "SENTENCIA", keywords |-> << "SENTENCIA" >>],
       [name |-> "AUTO", keywords |-> << "AUTO" >>],
       [name |-> "PROVIDENCIA", keywords |-> << "PROVIDENCIA" >>],
       [name |-> "DECRETO", keywords |-> << "DECRETO" >>],
       [name |-> "DEMANDA", keywords |-> << "DEMANDA" >>],
       [name |-> "RECURSO", keywords |-> << "RECURSO", "RECURR" >>] >>

\* Number of header lines inspected for a subtype marker
HeaderLines == 20

\* Scores are kept in thousandths: one type keyword adds 0.2, a subtype
\* keyword adds 1.0 in the header and 0.25 in the body
TypeIncrement == 200
HeaderIncrement == 1000
BodyIncrement == 250
ScoreCap == 1000
TypeFloor == 200

\* Number of text blocks put together to form a document
MaxBlocks == 2

\* A page of text without any keyword, as long as the header window
FillerBlock == Join([i \in 1..HeaderLines |-> "-"], "\n")

\* Blocks a normalizedText is composed of
TextBlocks ==
    { "SENTENCIA con fallo",
      "Sentencia 12/2024",
      "AUTOMOVIL",
      "PROVIDENCIA",
      "RECURSO: SUPLICO. La recurrente",
      "SE DESESTIMA LA DEMANDA. COSTAS A LA PARTE ACTORA",
      "Documento sin palabras clave",
      FillerBlock }

ClassifyTexts == {Join(bs, "\n") : bs \in SeqUpTo(TextBlocks, MaxBlocks)}

\* A document as classify() reads it: normalizedText and the section names
ClassifyDocuments ==
    {[normalizedText |-> t, sections |-> ss] :
        t \in ClassifyTexts, ss \in {<< >>, << "Fallo" >>}}

\* the keyword matches of one table entry: <<score, match labels>>
RECURSIVE type_matches_of(_, _, _, _)
type_matches_of(name, keywords, text, sections) ==
    IF Len(keywords) = 0 THEN [score |-> 0, matches |-> << >>]
    ELSE LET kw == keywords[1]
             rest == type_matches_of(name, Tail(keywords), text, sections)
         IN IF Contains(text, kw) \/ InSeq(kw, sections)
            THEN [score |-> TypeIncrement + rest.score,
                  matches |-> << name \o ":" \o kw >> \o rest.matches]
            ELSE rest

RECURSIVE subtype_matches_of(_, _, _, _)
subtype_matches_of(name, keywords, header_text, text) ==
    IF Len(keywords) = 0 THEN [score |-> 0, matches |-> << >>]
    ELSE LET kw == keywords[1]
             rest == subtype_matches_of(name, Tail(keywords), header_text, text)
         IN IF Contains(header_text, kw)
            THEN [score |-> HeaderIncrement + rest.score,
                  matches |-> << name \o ":" \o kw \o "(header)" >> \o rest.matches]
            ELSE IF Contains(text, kw)
            THEN [score |-> BodyIncrement + rest.score,
                  matches |-> << name \o ":" \o kw >> \o rest.matches]
            ELSE rest

\* max(scores, key=scores.get): the first entry with the greatest score
ArgMaxFirst(scores) ==
    CHOOSE i \in 1..Len(scores) :
        /\ \A j \in 1..Len(scores) : scores[j] <= scores[i]
        /\ \A j \in 1..(i - 1) : scores[j] < scores[i]

RECURSIVE Flatten(_)
Flatten(seqs) == IF Len(seqs) = 0 THEN << >> ELSE seqs[1] \o Flatten(Tail(seqs))

\* round(confidence, 2) of a value in thousandths, in hundredths
RoundToHundredths(thousandths) == (thousandths + 5) \div 10

\* forced_subtype: the header override, None when no marker is in the header
forced_subtype_of(header_text) ==
    IF SearchWord(header_text, "SENTENCIA") THEN Some("SENTENCIA")
    ELSE IF SearchWord(header_text, "AUTO") THEN Some("AUTO")
    ELSE IF SearchWord(header_text, "DECRETO") THEN Some("DECRETO")
    ELSE IF SearchWord(header_text, "PROVIDENCIA") THEN Some("PROVIDENCIA")
    ELSE None

\* min(1.0, max(best_type_score, 0.2) + best_subtype_score * 0.5)
rule_confidence(best_type_score, best_subtype_score) ==
    Min(ScoreCap, Max(best_type_score, TypeFloor) + best_subtype_score \div 2)

\* header_text: the first HeaderLines lines, stripped, upper-cased, blank ones
\* dropped, joined by one space
header_text_of(document) ==
    LET header_lines == Take(SplitLines(document.normalizedText), HeaderLines)
        kept == NonBlankLines(header_lines)
    IN Join([i \in 1..Len(kept) |-> Upper(Strip(kept[i]))], " ")

\* _rule_based_classification
rule_based_classification(document) ==
    LET text == Upper(document.normalizedText)
        sections == [i \in 1..Len(document.sections) |-> Upper(document.sections[i])]
        header_text == header_text_of(document)
        forced_subtype == forced_subtype_of(header_text)
        types == [i \in 1..Len(TYPE_KEYWORDS) |->
                     type_matches_of(TYPE_KEYWORDS[i].name, TYPE_KEYWORDS[i].keywords,
                                     text, sections)]
        type_matches == Flatten([i \in 1..Len(types) |-> types[i].matches])
        bt == ArgMaxFirst([i \in 1..Len(types) |-> types[i].score])
        best_type_score == Min(types[bt].score, ScoreCap)
        subs == [i \in 1..Len(SUBTYPE_KEYWORDS) |->
                    subtype_matches_of(SUBTYPE_KEYWORDS[i].name,
                                       SUBTYPE_KEYWORDS[i].keywords, header_text, text)]
        found == Flatten([i \in 1..Len(subs) |-> subs[i].matches])
        bs == ArgMaxFirst([i \in 1..Len(subs) |-> subs[i].score])
        forced == ~IsNone(forced_subtype)
        best_subtype_score == IF forced THEN ScoreCap ELSE Min(subs[bs].score, ScoreCap)
        subtype_matches ==
            IF forced THEN << Val(forced_subtype) \o ":header_override" >> \o found
            ELSE found
        best_type == IF best_type_score = 0 THEN "OTRO" ELSE TYPE_KEYWORDS[bt].name
        best_subtype ==
            IF best_subtype_score = 0 THEN "DESCONOCIDO"
            ELSE IF forced THEN Val(forced_subtype)
            ELSE SUBTYPE_KEYWORDS[bs].name
        confidence == rule_confidence(best_type_score, best_subtype_score)
        found_explanations ==
            (IF Len(type_matches) > 0
             THEN << "Reglas tipo: " \o Join(Take(type_matches, 5), ", ") >> ELSE << >>)
            \o (IF Len(subtype_matches) > 0
                THEN << "Reglas subtipo: " \o Join(Take(subtype_matches, 5), ", ") >>
                ELSE << >>)
        explanations ==
            IF Len(found_explanations) = 0 THEN << "No se detectaron patrones fuertes." >>
            ELSE found_explanations
    IN [docType |-> best_type,
        docSubtype |-> best_subtype,
        confidence |-> RoundToHundredths(confidence),
        source |-> "RULES_ONLY",
        explanations |-> explanations]

\* ClassificationResult objects a client's classify() returns (the test fakes)
ClientResults ==
    { [docType |-> "ESCRITO_PROCESAL", docSubtype |-> "DEMANDA", confidence |-> 70,
       source |-> "LLM", explanations |-> << "LLM" >>],
      [docType |-> "OTRO", docSubtype |-> "DESCONOCIDO", confidence |-> 20,
       source |-> "FAKE", explanations |-> << "fake" >>],
      [docType |-> "RESOLUCION_JURIDICA", docSubtype |-> "RECURSO", confidence |-> 90,
       source |-> "FAKE", explanations |-> << "Patrones de recurso identificados" >>] }

NoResult ==
    [docType |-> "", docSubtype |-> "", confidence |-> 0, source |-> "",
     explanations |-> << >>]

\* JSON objects the capability answers with: each member is optional, and
\* "confidence" is a number (in hundredths), a text that is no number, or absent
NoData ==
    [doc_type |-> None, doc_subtype |-> None,
     confidence |-> [kind |-> "missing", value |-> 0],
     rationale |-> None, reasoning |-> None]

ClassifyPayloads ==
    { NoData,
      [doc_type |-> Some("resolucion_juridica"), doc_subtype |-> Some("sentencia"),
       confidence |-> [kind |-> "number", value |-> 90],
       rationale |-> Some("Patrones de sentencia"), reasoning |-> None],
      [doc_type |-> Some("ESCRITO_PROCESAL"), doc_subtype |-> Some("DEMANDA"),
       confidence |-> [kind |-> "text", value |-> 0],
       rationale |-> None, reasoning |-> Some("parece una demanda")],
      [doc_type |-> Some("OTRO"), doc_subtype |-> Some("AUTO"),
       confidence |-> [kind |-> "number", value |-> 150],
       rationale |-> None, reasoning |-> None] }

\* What a call of client.classify() does: returns a ClassificationResult,
\* returns a dict, returns something that is neither (a text, None, a list:
\* an object without .get), or raises
ClassifyMethodOutcomes ==
    {[kind |-> "result", cr |-> r, data |-> NoData] : r \in ClientResults}
    \cup {[kind |-> "dict", cr |-> NoResult, data |-> d] : d \in ClassifyPayloads}
    \cup {[kind |-> k, cr |-> NoResult, data |-> NoData] : k \in {"raises", "not_a_dict"}}

\* What client.chat() followed by client._parse_json() does: chat raises,
\* the parse raises, a JSON object comes back, or a JSON value that is no
\* object (a list, a number, a text, null)
ChatOutcomes ==
    {[kind |-> "json", data |-> d] : d \in ClassifyPayloads}
    \cup {[kind |-> k, data |-> NoData] : k \in {"chat_error", "parse_error", "not_a_dict"}}

\* The ClassificationResult _llm_classification builds from the parsed data
llm_result_from_data(data) ==
    LET doc_type == IF IsNone(data.doc_type) THEN "OTRO" ELSE Val(data.doc_type)
        doc_subtype ==
            IF IsNone(data.doc_subtype) THEN "DESCONOCIDO" ELSE Val(data.doc_subtype)
        confidence ==
            IF data.confidence.kind = "number" THEN data.confidence.value ELSE 0
    IN [docType |-> Upper(doc_type),
        docSubtype |-> Upper(doc_subtype),
        confidence |-> Min(Max(confidence, 0), 100),
        source |-> "LLM",
        explanations |->
            << IF Truthy(data.rationale) THEN Val(data.rationale)
               ELSE IF Truthy(data.reasoning) THEN Val(data.reasoning)
               ELSE "" >>]

\* A faulty fusion that prefers the external result on a tie
fuse_on_tie(rule_result, llm_result) ==
    IF llm_result.confidence >= rule_result.confidence
    THEN [docType |-> llm_result.docType,
          docSubtype |-> llm_result.docSubtype,
          confidence |-> llm_result.confidence,
          source |-> "HYBRID",
          explanations |-> rule_result.explanations \o llm_result.explanations]
    ELSE rule_result

\* The fusion of classify()
fuse(rule_result, llm_result) ==
    IF llm_result.confidence > rule_result.confidence
    THEN [docType |-> llm_result.docType,
          docSubtype |-> llm_result.docSubtype,
          confidence |-> llm_result.confidence,
          source |-> "HYBRID",
          explanations |-> rule_result.explanations \o llm_result.explanations]
    ELSE rule_result

\* A faulty first decision that never trusts the rules alone
rules_are_confident_never(rule_result, cfg) == FALSE

\* rule_result.confidence >= self._rule_threshold
rules_are_confident(rule_result, cfg) == rule_result.confidence >= cfg.rule_threshold

\* except ...: return None, and then `if llm_result is None: return rule_result`
on_llm_failure(rule_result) == rule_result

\* rule_threshold / force_llm_threshold as the configuration and the tests set
\* them, and one setting that asks the capability below a bar above rule_threshold
ThresholdConfigs ==
    { [rule_threshold |-> 80, force_llm_threshold |-> 50],
      [rule_threshold |-> 80, force_llm_threshold |-> 40],
      [rule_threshold |-> 99, force_llm_threshold |-> 20],
      [rule_threshold |-> 70, force_llm_threshold |-> 90] }

ClassifyConfigs ==
    {[rule_threshold |-> t.rule_threshold,
      force_llm_threshold |-> t.force_llm_threshold,
      hasClassify |-> h] : t \in ThresholdConfigs, h \in BOOLEAN}

InitClassifyVars ==
    /\ cDoc \in ClassifyDocuments
    /\ cCfg \in ClassifyConfigs
    /\ cPc = "start"
    /\ cRule = None
    /\ cLlm = None
    /\ cCalls = 0
    /\ cFail = "none"
    /\ cOut = None

IdleClassifyVars ==
    /\ cDoc = [normalizedText |-> "", sections |-> << >>]
    /\ cCfg = [rule_threshold |-> 80, force_llm_threshold |-> 50, hasClassify |-> FALSE]
    /\ cPc = "idle"
    /\ cRule = None
    /\ cLlm = None
    /\ cCalls = 0
    /\ cFail = "none"
    /\ cOut = None

\* rule_result = self._rule_based_classification(document)
RuleStage ==
    /\ cPc = "start"
    /\ cRule' = Some(rule_based_classification(cDoc))
    /\ cPc' = "rules"
    /\ UNCHANGED <<cDoc, cCfg, cLlm, cCalls, cFail, cOut, svars, evars, nvars, lvars, pvars>>

\* if rule_result.confidence >= self._rule_threshold: return rule_result
ReturnConfident ==
    /\ cPc = "rules"
    /\ rules_are_confident(Val(cRule), cCfg)
    /\ cOut' = Some(Val(cRule))
    /\ cPc' = "done"
    /\ UNCHANGED <<cDoc, cCfg, cRule, cLlm, cCalls, cFail, svars, evars, nvars, lvars, pvars>>

NeedsLlm ==
    /\ cPc = "rules"
    /\ ~rules_are_confident(Val(cRule), cCfg)
    /\ Val(cRule).confidence < cCfg.force_llm_threshold

\* rule confidence is neither above rule_threshold nor below
\* force_llm_threshold: llm_result stays None and the rule result is returned
SkipLlm ==
    /\ cPc = "rules"
    /\ ~rules_are_confident(Val(cRule), cCfg)
    /\ ~(Val(cRule).confidence < cCfg.force_llm_threshold)
    /\ cOut' = Some(Val(cRule))
    /\ cPc' = "done"
    /\ UNCHANGED <<cDoc, cCfg, cRule, cLlm, cCalls, cFail, svars, evars, nvars, lvars, pvars>>

\* _llm_classification, the client has a classify() method.  A value that
\* is neither a ClassificationResult nor a dict leaves the try block as
\* `data`, and data.get(...) after the try raises out of classify().
CallClassifyMethod ==
    /\ NeedsLlm
    /\ cCfg.hasClassify
    /\ cCalls' = cCalls + 1
    /\ \E o \in ClassifyMethodOutcomes :
          /\ cLlm' = CASE o.kind = "result" -> Some(o.cr)
                       [] o.kind = "dict" -> Some(llm_result_from_data(o.data))
                       [] OTHER -> None
          /\ cPc' = CASE o.kind = "raises" -> "chat"
                      [] o.kind = "not_a_dict" -> "error"
                      [] OTHER -> "fuse"
          /\ cFail' = IF o.kind = "not_a_dict" THEN o.kind ELSE cFail
    /\ UNCHANGED <<cDoc, cCfg, cRule, cOut, svars, evars, nvars, lvars, pvars>>

\* _llm_classification, the chat-based flow (the client has no classify(), or
\* its classify() raised).  A parsed value that is no dict leaves the try
\* block as `data`, and data.get(...) after the try raises out of classify().
CallChat ==
    /\ \/ cPc = "chat"
       \/ NeedsLlm /\ ~cCfg.hasClassify
    /\ cCalls' = cCalls + 1
    /\ \E o \in ChatOutcomes :
          IF o.kind = "json"
          THEN /\ cLlm' = Some(llm_result_from_data(o.data))
               /\ cPc' = "fuse"
               /\ cFail' = cFail
               /\ cOut' = cOut
          ELSE IF o.kind = "not_a_dict"
          THEN /\ cLlm' = None
               /\ cPc' = "error"
               /\ cFail' = o.kind
               /\ cOut' = cOut
          ELSE /\ cLlm' = None
               /\ cPc' = "done"
               /\ cFail' = o.kind
               /\ cOut' = Some(on_llm_failure(Val(cRule)))
    /\ UNCHANGED <<cDoc, cCfg, cRule, svars, evars, nvars, lvars, pvars>>

\* the fusion and the final return of classify()
Fuse ==
    /\ cPc = "fuse"
    /\ cOut' = Some(fuse(Val(cRule), Val(cLlm)))
    /\ cPc' = "done"
    /\ UNCHANGED <<cDoc, cCfg, cRule, cLlm, cCalls, cFail, svars, evars, nvars, lvars, pvars>>

NextClassify ==
    \/ RuleStage
    \/ ReturnConfident
    \/ SkipLlm
    \/ CallClassifyMethod
    \/ CallChat
    \/ Fuse

----------------------------------------------------------------------------
(* Entity extraction  (utils/date_amount_parsing.py) *)

\* s[a..b], cut at the end of s ("" when a is beyond it)
Slice(s, a, b) == IF a > Len(s) THEN "" ELSE SubSeq(s, a, Min(b, Len(s)))

\* the regex class \s
SpaceSet == WhiteSpace
DigitSet == {Char(Digits, i) : i \in 1..Len(Digits)}
AmountCharSet == DigitSet \cup {".", ","}
DateSeparators == {"/", ".", "-"}

\* the position after the longest run of characters of `set` that starts at i
SpanEnd(s, i, set) ==
    CHOOSE j \in i..(Len(s) + 1) :
        /\ \A k \in i..(j - 1) : Char(s, k) \in set
        /\ (j = Len(s) + 1 \/ Char(s, j) \notin set)

\* \b between s[i-1] and s[i]
WordBoundary(s, i) ==
    (i > 1 /\ i - 1 <= Len(s) /\ IsWordChar(Char(s, i - 1)))
        # (i >= 1 /\ i <= Len(s) /\ IsWordChar(Char(s, i)))

\* the literal w at i, compared without regard to case (re.IGNORECASE):
\* the position after it, 0 when it is not there
LiteralEnd(s, i, w) ==
    IF Upper(Slice(s, i, i + Len(w) - 1)) = Upper(w) THEN i + Len(w) ELSE 0

\* the words joined by \s+, from i: the position after the last one, or 0
RECURSIVE WordsEnd(_, _, _)
WordsEnd(s, i, words) ==
    IF Len(words) = 0 THEN i
    ELSE LET e == LiteralEnd(s, i, Head(words))
         IN IF e = 0 THEN 0
            ELSE IF Len(words) = 1 THEN e
            ELSE LET j == SpanEnd(s, e, SpaceSet)
                 IN IF j = e THEN 0 ELSE WordsEnd(s, j, Tail(words))

\* AMOUNT_REGEX_COP at i:  ((?:\$?\s*)[\d.,]+\s?(?:COP|pesos)\b)  IGNORECASE
AmountEnd(s, i) ==
    LET a == IF Slice(s, i, i) = "$" THEN i + 1 ELSE i
        b == SpanEnd(s, a, SpaceSet)
        c == SpanEnd(s, b, AmountCharSet)
        Unit(d) ==
            LET e1 == LiteralEnd(s, d, "COP")
                e2 == LiteralEnd(s, d, "pesos")
                e == IF e1 > 0 THEN e1 ELSE e2
            IN IF e > 0 /\ WordBoundary(s, e) THEN e ELSE 0
        spaced == IF Slice(s, c, c) \in SpaceSet THEN Unit(c + 1) ELSE 0
    IN IF c = b THEN 0
       ELSE IF spaced > 0 THEN spaced
       ELSE Unit(c)

RECURSIVE AmountsFrom(_, _)
AmountsFrom(s, i) ==
    IF i > Len(s) THEN << >>
    ELSE LET e == AmountEnd(s, i)
         IN IF e > 0 THEN << SubSeq(s, i, e - 1) >> \o AmountsFrom(s, e)
            ELSE AmountsFrom(s, i + 1)

\* extract_amounts
extract_amounts(text) == AmountsFrom(text, 1)

\* exactly n digits at i: the position after them, or 0
DigitsEnd(s, i, n) ==
    IF i + n - 1 <= Len(s) /\ \A k \in i..(i + n - 1) : Char(s, k) \in DigitSet
    THEN i + n ELSE 0

\* DATE_REGEX_NUMERIC at i:  (\b\d{2}[/.-]\d{2}[/.-]\d{4})\b
NumericDateEnd(s, i) ==
    IF /\ WordBoundary(s, i)
       /\ DigitsEnd(s, i, 2) > 0
       /\ Slice(s, i + 2, i + 2) \in DateSeparators
       /\ DigitsEnd(s, i + 3, 2) > 0
       /\ Slice(s, i + 5, i + 5) \in DateSeparators
       /\ DigitsEnd(s, i + 6, 4) > 0
       /\ WordBoundary(s, i + 10)
    THEN i + 10 ELSE 0

SPANISH_MONTHS ==
    << "enero", "febrero", "marzo", "abril", "mayo", "junio", "julio", "agosto",
       "septiembre", "octubre", "noviembre", "diciembre" >>

\* DATE_REGEX_SPANISH at i:  (\b\d{1,2}\s+de\s+MONTH\s+de\s+\d{4}\b)  IGNORECASE
SpanishDateEnd(s, i) ==
    LET d == IF DigitsEnd(s, i, 2) > 0 THEN i + 2 ELSE DigitsEnd(s, i, 1)
        sp == IF d = 0 THEN 0 ELSE SpanEnd(s, d, SpaceSet)
        ends == {WordsEnd(s, sp, << "de", SPANISH_MONTHS[m], "de" >>) :
                    m \in 1..Len(SPANISH_MONTHS)} \ {0}
        e == IF ends = {} THEN 0 ELSE CHOOSE x \in ends : TRUE
        y == IF e = 0 THEN 0 ELSE SpanEnd(s, e, SpaceSet)
    IN IF /\ WordBoundary(s, i)
          /\ d > 0 /\ sp > d
          /\ e > 0 /\ y > e
          /\ DigitsEnd(s, y, 4) > 0
          /\ WordBoundary(s, y + 4)
       THEN y + 4 ELSE 0

RECURSIVE NumericDatesFrom(_, _)
NumericDatesFrom(s, i) ==
    IF i > Len(s) THEN << >>
    ELSE LET e == NumericDateEnd(s, i)
         IN IF e > 0 THEN << SubSeq(s, i, e - 1) >> \o NumericDatesFrom(s, e)
            ELSE NumericDatesFrom(s, i + 1)

RECURSIVE SpanishDatesFrom(_, _)
SpanishDatesFrom(s, i) ==
    IF i > Len(s) THEN << >>
    ELSE LET e == SpanishDateEnd(s, i)
         IN IF e > 0 THEN << SubSeq(s, i, e - 1) >> \o SpanishDatesFrom(s, e)
            ELSE SpanishDatesFrom(s, i + 1)

\* extract_dates: numeric_dates + spanish_dates
extract_dates(text) == NumericDatesFrom(text, 1) \o SpanishDatesFrom(text, 1)

\* the alternatives that open DEADLINE_REGEX, as words joined by one space
DeadlineOpenings ==
    << "dentro de", "en el plazo de", "plazo de", "para recurrir",
       "para interponer el recurso", "para interponer recurso", "recurso de apelacion" >>

\* the position after the opening found at i, or 0
DeadlineOpeningEnd(s, i) ==
    LET opens == {LiteralEnd(s, i, DeadlineOpenings[k]) : k \in 1..Len(DeadlineOpenings)} \ {0}
    IN IF opens = {} THEN 0 ELSE CHOOSE x \in opens : TRUE

\* (?:\s+h[aa]biles)?\b  after the "dias" that ends before position dias
DeadlineTailEnd(s, dias) ==
    LET hab == LiteralEnd(s, SpanEnd(s, dias, SpaceSet), "habiles")
    IN IF SpanEnd(s, dias, SpaceSet) > dias /\ hab > 0 /\ WordBoundary(s, hab) THEN hab
       ELSE IF WordBoundary(s, dias) THEN dias
       ELSE 0

\* \d+\s+d[ii]as  from b, then the tail
DeadlineDaysEnd(s, b) ==
    LET c == SpanEnd(s, b, DigitSet)
        dias == LiteralEnd(s, SpanEnd(s, c, SpaceSet), "dias")
    IN IF c > b /\ SpanEnd(s, c, SpaceSet) > c /\ dias > 0
       THEN DeadlineTailEnd(s, dias) ELSE 0

\* \s*(?:de\s*)?  from o, then the days
DeadlineCountEnd(s, o) ==
    LET de == LiteralEnd(s, SpanEnd(s, o, SpaceSet), "de")
    IN IF de > 0 THEN DeadlineDaysEnd(s, SpanEnd(s, de, SpaceSet))
       ELSE DeadlineDaysEnd(s, SpanEnd(s, o, SpaceSet))

\* DEADLINE_REGEX at i:
\*   (\b(?:opening)\s*(?:de\s*)?\d+\s+d[ii]as(?:\s+h[aa]biles)?\b)  IGNORECASE
DeadlineEnd(s, i) ==
    IF WordBoundary(s, i) /\ DeadlineOpeningEnd(s, i) > 0
    THEN DeadlineCountEnd(s, DeadlineOpeningEnd(s, i)) ELSE 0

RECURSIVE DeadlinesFrom(_, _)
DeadlinesFrom(s, i) ==
    IF i > Len(s) THEN << >>
    ELSE LET e == DeadlineEnd(s, i)
         IN IF e > 0 THEN << SubSeq(s, i, e - 1) >> \o DeadlinesFrom(s, e)
            ELSE DeadlinesFrom(s, i + 1)

\* extract_deadlines
extract_deadlines(text) == DeadlinesFrom(text, 1)

----------------------------------------------------------------------------
(* SafetyCheckService  (services/safety_check_service.py) *)

UpperSet == {Char(UpperLetters, i) : i \in 1..Len(UpperLetters)}
LowerMap ==
    [c \in UpperSet |->
        Char(LowerLetters, CHOOSE j \in 1..Len(UpperLetters) : Char(UpperLetters, j) = c)]

LowerChar(c) == IF c \in UpperSet THEN LowerMap[c] ELSE c

\* s.lower()
RECURSIVE Lower(_)
Lower(s) ==
    IF Len(s) = 0 THEN ""
    ELSE LowerChar(Char(s, 1)) \o Lower(SubSeq(s, 2, Len(s)))

\* re.search(r"\b(A|B|...)\b", t, re.IGNORECASE), every alternative a
\* sequence of words joined by \s+
SearchPhrases(t, phrases) ==
    \E k \in 1..Len(phrases) :
        \E i \in 1..Len(t) :
            /\ WordBoundary(t, i)
            /\ LET e == WordsEnd(t, i, phrases[k])
               IN e > 0 /\ WordBoundary(t, e)

\* re.search(r"\bFIRST\b.*\bSECOND\b", t, re.IGNORECASE): both words, the
\* second after the first with no line break in between
SearchWordThenWord(t, first, second) ==
    \E i \in 1..Len(t) :
        LET e == LiteralEnd(t, i, first)
        IN /\ WordBoundary(t, i)
           /\ e > 0
           /\ WordBoundary(t, e)
           /\ \E j \in e..Len(t) :
                  LET f == LiteralEnd(t, j, second)
                  IN /\ WordBoundary(t, j)
                     /\ f > 0
                     /\ WordBoundary(t, f)
                     /\ \A k \in e..(j - 1) : Char(t, k) # "\n"

DismissalPhrases == << << "SE", "DESESTIMA" >>, << "DESESTIMA" >>, << "NO", "HA", "LUGAR" >> >>
EstimationPhrases ==
    << << "SE", "ESTIMA" >>, << "ESTIMAR" >>, << "SE", "ACUERDA", "ESTIMAR" >>,
       << "FALLA", "A", "FAVOR" >> >>

\* _detect_winner_from_text
detect_winner_from_text(t) ==
    IF SearchPhrases(t, DismissalPhrases) THEN "parte demandada"
    ELSE IF SearchPhrases(t, EstimationPhrases) THEN "parte demandante"
    ELSE "desconocido"

CostsImposedPhrases ==
    << << "IMPONER", "EN", "COSTAS" >>, << "CONDENA", "EN", "COSTAS" >>,
       << "CONDENANDO", "EN", "COSTAS" >> >>
NoCostsPhrases == << << "SIN", "COSTAS" >>, << "NO", "CONDENAR", "EN", "COSTAS" >> >>

\* _detect_costs_from_text
detect_costs_from_text(t) ==
    IF SearchPhrases(t, CostsImposedPhrases) \/ SearchWordThenWord(t, "COSTAS", "IMPONEN")
    THEN "completo"
    ELSE IF SearchPhrases(t, NoCostsPhrases) THEN "ninguno"
    ELSE IF \/ SearchWordThenWord(t, "COSTAS", "PARCIAL")
            \/ SearchWordThenWord(t, "PARCIALMENTE", "COSTAS")
    THEN "parcial"
    ELSE "desconocido"

\* norm_map.get(w, w)
NormWinner(w) ==
    CASE w \in {"parte demandante", "demandante", "actora"} -> "parte demandante"
      [] w \in {"parte demandada", "demandada", "demandado"} -> "parte demandada"
      [] OTHER -> w

\* set(seq)
Range(seq) == {seq[i] : i \in 1..Len(seq)}

\* the orders in which a `for` over a set of strings may visit it
Orderings(S) ==
    {q \in [1..Cardinality(S) -> S] : \A i, j \in 1..Cardinality(S) : q[i] = q[j] => i = j}

\* the flags of one `for x in orig: if x not in simp: flags.append(f"{code}:{x}")`
missing_flags(code, order, simp) ==
    LET Keep(i) == order[i] \notin simp
        F[i \in 0..Len(order)] ==
            IF i = 0 THEN << >>
            ELSE IF Keep(i) THEN Append(F[i - 1], code \o ":" \o order[i]) ELSE F[i - 1]
    IN F[Len(order)]

\* simplification.decisionFallo as evaluate() finds it: no such attribute
\* (getattr gives None), the dict simplify() builds (keys, no attributes), or
\* an object with the attributes whoWins and costs
NoDecision == [form |-> "absent", whoWins |-> None, costs |-> None]
DictDecision(who, costs) == [form |-> "dict", whoWins |-> Some(who), costs |-> Some(costs)]
ObjectDecision(who, costs) == [form |-> "object", whoWins |-> who, costs |-> costs]

\* `if decision:`
decision_is_truthy(decision) == decision.form \in {"dict", "object"}

\* getattr(decision, name, "") or "": a dict has no such attribute
decision_attribute(decision, value) ==
    IF decision.form = "object" THEN OrEmpty(value) ELSE ""

\* (getattr(decision, name, "") or "").strip().lower() or "desconocido"
normalized_attribute(decision, value) ==
    LET v == Lower(Strip(decision_attribute(decision, value)))
    IN IF v = "" THEN "desconocido" ELSE v

\* The locals of _rule_based_flags before the flags are appended
rule_based_locals(original, simplification) ==
    LET orig_text_full == Upper(original.normalizedText)
        simp_text == Upper(simplification.simplifiedText)
        orig_text_fallo == Upper(OrEmpty(original.falloLiteral))
    IN [fallo_literal |-> original.falloLiteral,
        orig_winner |-> detect_winner_from_text(orig_text_fallo),
        orig_costs |-> detect_costs_from_text(orig_text_fallo),
        orig_amounts |-> Range(extract_amounts(orig_text_full)),
        simp_amounts |-> Range(extract_amounts(simp_text)),
        orig_dates |-> Range(extract_dates(orig_text_full)),
        simp_dates |-> Range(extract_dates(simp_text)),
        orig_deadlines |-> Range(extract_deadlines(orig_text_full)),
        simp_deadlines |-> Range(extract_deadlines(simp_text))]

\* The flags about the FALLO: MISSING_FALLO_LITERAL and the two mismatches
fallo_flags(loc, decision) ==
    LET simp_winner == normalized_attribute(decision, decision.whoWins)
        simp_costs == normalized_attribute(decision, decision.costs)
    IN (IF ~Truthy(loc.fallo_literal) THEN << "MISSING_FALLO_LITERAL" >> ELSE << >>)
       \o (IF /\ decision_is_truthy(decision)
              /\ simp_winner # "desconocido"
              /\ loc.orig_winner # "desconocido"
              /\ NormWinner(simp_winner) # NormWinner(loc.orig_winner)
           THEN << "FALLO_POLARITY_MISMATCH" >> ELSE << >>)
       \o (IF /\ decision_is_truthy(decision)
              /\ simp_costs # "desconocido"
              /\ loc.orig_costs # "desconocido"
              /\ simp_costs # loc.orig_costs
           THEN << "FALLO_COSTS_MISMATCH" >> ELSE << >>)

\* The code of the flag for a deadline that is missing
DeadlineFlagCode == "WARNING_MISSING_DEADLINE"

\* The flags about entities, for the orders in which the three sets are visited
entity_flags(loc, amounts, dates, deadlines) ==
    missing_flags("MISSING_AMOUNT", amounts, loc.simp_amounts)
    \o missing_flags("MISSING_DATE", dates, loc.simp_dates)
    \o missing_flags(DeadlineFlagCode, deadlines, loc.simp_deadlines)

\* _rule_based_flags
rule_based_flags(loc, decision, amounts, dates, deadlines) ==
    fallo_flags(loc, decision) \o entity_flags(loc, amounts, dates, deadlines)

VictoryPhrases == {"has ganado", "has perdido", "ganado", "te devolver", "el banco debe"}

\* evaluate(): who = (decision.whoWins if decision else "") or "", "" when the
\* attribute access raises
who_of(decision) ==
    IF decision.form = "object" THEN OrEmpty(decision.whoWins) ELSE ""

\* evaluate(): the check that the guide claims no victory without a FALLO
guide_flags(decision, legal_guide) ==
    LET text_all == Lower(legal_guide.meaningForYou \o " " \o legal_guide.whatToDoNow)
    IN IF /\ Lower(who_of(decision)) = "desconocido"
          /\ \E phrase \in VictoryPhrases : Contains(text_all, phrase)
       THEN << "GUIDE_ASSERTS_VICTORY_WITHOUT_FALLO" >> ELSE << >>

\* A value of the keys "warnings" / "alerts": a list of strings or a scalar
ListOf(items) == [list |-> TRUE, items |-> items]
ScalarOf(text) == [list |-> FALSE, items |-> << text >>]
NoList == ListOf(<< >>)

\* the truth value of such a value (an absent key reads as the empty list)
list_is_truthy(w) == w.items # << >> /\ (w.list \/ w.items[1] # "")

\* A dict as verify_safety() or _parse_json() may give it: absent keys are
\* None, and text is str() of the dict
PayloadSafe ==
    [is_safe |-> Some(TRUE), safe |-> None, warnings |-> NoList, alerts |-> NoList,
     verdict |-> Some("ok"), summary |-> None, raw_response |-> None,
     text |-> "{'is_safe': True, 'warnings': [], 'verdict': 'ok'}"]
PayloadUnsafe ==
    [is_safe |-> Some(FALSE), safe |-> None,
     warnings |-> ListOf(<< "Falta informacion" >>), alerts |-> NoList,
     verdict |-> Some("riesgo"), summary |-> None, raw_response |-> None,
     text |-> "{'is_safe': False, 'warnings': ['Falta informacion'], 'verdict': 'riesgo'}"]
PayloadLegacyKeys ==
    [is_safe |-> None, safe |-> Some(TRUE), warnings |-> NoList,
     alerts |-> ScalarOf("revisar"), verdict |-> None, summary |-> Some("resumen"),
     raw_response |-> None,
     text |-> "{'safe': True, 'alerts': 'revisar', 'summary': 'resumen'}"]
PayloadEmpty ==
    [is_safe |-> None, safe |-> None, warnings |-> NoList, alerts |-> NoList,
     verdict |-> None, summary |-> None, raw_response |-> None, text |-> "{}"]
VerifierPayloads == {PayloadSafe, PayloadUnsafe, PayloadLegacyKeys, PayloadEmpty}

\* bool(result.get("is_safe", result.get("safe", False)))
payload_is_safe(p) ==
    IF ~IsNone(p.is_safe) THEN Val(p.is_safe)
    ELSE IF ~IsNone(p.safe) THEN Val(p.safe)
    ELSE FALSE

\* result.get("warnings") or result.get("alerts") or [], a scalar wrapped
payload_warnings(p) ==
    IF list_is_truthy(p.warnings) THEN p.warnings.items
    ELSE IF list_is_truthy(p.alerts) THEN p.alerts.items
    ELSE << >>

\* result.get("verdict") or result.get("summary") or None
payload_verdict(p) ==
    IF Truthy(p.verdict) THEN p.verdict
    ELSE IF Truthy(p.summary) THEN p.summary
    ELSE None

\* the dict _call_verifier builds from a dict; raw is the text kept as
\* raw_response when the dict has none
llm_output_of(p, raw) ==
    [is_safe |-> payload_is_safe(p),
     warnings |-> payload_warnings(p),
     verdict |-> payload_verdict(p),
     raw_response |-> IF Truthy(p.raw_response) THEN Val(p.raw_response) ELSE raw]

\* the dict _call_verifier returns when _parse_json raises LLMClientError
UnverifiableWarning == "No se ha podido verificar correctamente el significado."
unparseable_output(raw) ==
    [is_safe |-> FALSE, warnings |-> << UnverifiableWarning >>,
     verdict |-> None, raw_response |-> raw]

\* What self._client.verify_safety(...) may do
VerifyMethodOutcomes ==
    {[kind |-> "dict", payload |-> p] : p \in VerifierPayloads}
    \cup {[kind |-> k, payload |-> PayloadEmpty] :
            k \in {"report", "other", "client_error", "other_error"}}

\* a result of verify_safety that has the attribute isSafe
ReportObject ==
    [isSafe |-> TRUE, messages |-> << "aviso" >>, llmVerdict |-> Some("ok"),
     text |-> "isSafe=True"]

\* What self._client.chat(...) followed by self._client._parse_json(raw) may do
RawProse == "No puedo verificarlo"
VerifierChatOutcomes ==
    {[kind |-> "json", raw |-> p.text, payload |-> p] : p \in VerifierPayloads}
    \cup {[kind |-> "parse_client_error", raw |-> RawProse, payload |-> PayloadEmpty],
          [kind |-> "chat_client_error", raw |-> "", payload |-> PayloadEmpty],
          [kind |-> "other_error", raw |-> "", payload |-> PayloadEmpty]}

\* a variant in which an external verdict alone decides
is_safe_ignoring_rules(rule_flags, llm_output) ==
    IF IsNone(llm_output) THEN rule_flags = << >> ELSE Val(llm_output).is_safe

\* evaluate(): is_safe from rule_flags and llm_output
is_safe_of(rule_flags, llm_output) ==
    LET issues == rule_flags \o (IF IsNone(llm_output) THEN << >> ELSE Val(llm_output).warnings)
    IN IF IsNone(llm_output) THEN issues = << >>
       ELSE issues = << >> /\ Val(llm_output).is_safe

\* schemas.SafetyIssue(code=..., message=...)
safety_issue(code, message) == [code |-> code, message |-> message]

\* evaluate(): the SafetyCheckResult returned
safety_check_result(rule_flags, llm_output) ==
    [isSafe |-> is_safe_of(rule_flags, llm_output),
     issues |->
        [i \in 1..Len(rule_flags) |-> safety_issue(rule_flags[i], rule_flags[i])]
        \o (IF IsNone(llm_output) THEN << >>
            ELSE [i \in 1..Len(Val(llm_output).warnings) |->
                    safety_issue("LLM_WARNING", Val(llm_output).warnings[i])]),
     ruleBasedFlags |-> rule_flags,
     llmVerdict |->
        IF IsNone(llm_output) THEN None
        ELSE IF Truthy(Val(llm_output).verdict) THEN Val(llm_output).verdict
        ELSE Some(Val(llm_output).raw_response)]

\* The inputs of evaluate()
OriginalTexts ==
    {"Se impone multa de $5.000 COP. Fecha limite 10/05/2024.",
     "Debe pagar 3.000 pesos y 2.000 pesos EN EL PLAZO DE 20 DIAS",
     "Se estima la demanda"}
OriginalFallos ==
    {None,
     Some("SE DESESTIMA LA DEMANDA. SIN COSTAS"),
     Some("Se estima la demanda y se condena en costas a la demandada")}
SimplifiedTexts ==
    {"Resumen sin datos",
     "Multa de $5.000 COP antes del 10/05/2024",
     "Pague 3.000 PESOS y 2.000 pesos en el Plazo de 20 Dias"}
\* the decision SimplificationService derives from a clause, as an object
DerivedDecision(fallo_literal) ==
    ObjectDecision(Some(derive_decision_from_fallo(fallo_literal)[1]),
                   Some(derive_decision_from_fallo(fallo_literal)[2]))

Decisions ==
    {DerivedDecision(f) : f \in OriginalFallos} \cup
    {NoDecision,
     DictDecision("desconocido", "desconocido"),
     DictDecision("parte demandada", "completo"),
     ObjectDecision(Some("desconocido"), Some("desconocido")),
     ObjectDecision(Some("parte demandante"), Some("completo")),
     ObjectDecision(Some("Demandada"), Some("ninguno")),
     ObjectDecision(Some("actora"), None)}
LegalGuides ==
    {[meaningForYou |-> "Resumen", whatToDoNow |-> "Acciones"],
     [meaningForYou |-> "Has ganado el caso", whatToDoNow |-> "Espera el pago"]}

EvaluateInputs ==
    {[original |-> [normalizedText |-> t, falloLiteral |-> f],
      simplification |-> [simplifiedText |-> s, decisionFallo |-> d],
      legal_guide |-> g,
      hasVerify |-> h] :
        t \in OriginalTexts, f \in OriginalFallos, s \in SimplifiedTexts,
        d \in Decisions, g \in LegalGuides, h \in BOOLEAN}

NoLocals ==
    [fallo_literal |-> None, orig_winner |-> "", orig_costs |-> "",
     orig_amounts |-> {}, simp_amounts |-> {}, orig_dates |-> {}, simp_dates |-> {},
     orig_deadlines |-> {}, simp_deadlines |-> {}]
NoRules == [locals |-> NoLocals, rule_flags |-> << >>]
NoReport == None

InitEvaluateVars ==
    /\ eIn \in EvaluateInputs
    /\ ePc = "start"
    /\ eRules = NoRules
    /\ eLlm = None
    /\ eFail = "none"
    /\ eOut = NoReport

IdleEvaluateVars ==
    /\ eIn = [original |-> [normalizedText |-> "", falloLiteral |-> None],
              simplification |-> [simplifiedText |-> "", decisionFallo |-> NoDecision],
              legal_guide |-> [meaningForYou |-> "", whatToDoNow |-> ""],
              hasVerify |-> FALSE]
    /\ ePc = "idle"
    /\ eRules = NoRules
    /\ eLlm = None
    /\ eFail = "none"
    /\ eOut = NoReport

\* evaluate() up to the call of _call_verifier: _rule_based_flags and the
\* check of the guide
RuleBasedFlags ==
    /\ ePc = "start"
    /\ \E loc \in {rule_based_locals(eIn.original, eIn.simplification)} :
       \E amounts \in Orderings(loc.orig_amounts),
          dates \in Orderings(loc.orig_dates),
          deadlines \in Orderings(loc.orig_deadlines) :
            eRules' = [locals |-> loc,
                       rule_flags |->
                          rule_based_flags(loc, eIn.simplification.decisionFallo,
                                           amounts, dates, deadlines)
                          \o guide_flags(eIn.simplification.decisionFallo,
                                         eIn.legal_guide)]
    /\ ePc' = IF eIn.hasVerify THEN "verify_safety" ELSE "chat"
    /\ UNCHANGED <<eIn, eLlm, eFail, eOut, svars, cvars, nvars, lvars, pvars>>

\* _call_verifier, the branch of a client that has verify_safety
VerifySafety(o) ==
    /\ ePc = "verify_safety"
    /\ \/ /\ o.kind = "dict"
          /\ eLlm' = Some(llm_output_of(o.payload, o.payload.text))
          /\ ePc' = "verified"
          /\ eFail' = "none"
       \/ /\ o.kind = "report"
          /\ eLlm' = Some([is_safe |-> ReportObject.isSafe,
                           warnings |-> ReportObject.messages,
                           verdict |-> ReportObject.llmVerdict,
                           raw_response |-> ReportObject.text])
          /\ ePc' = "verified"
          /\ eFail' = "none"
       \/ /\ o.kind = "other"
          /\ ePc' = "chat"
          /\ UNCHANGED <<eLlm, eFail>>
       \/ /\ o.kind = "client_error"
          /\ eLlm' = None
          /\ ePc' = "verified"
          /\ eFail' = "call_client_error"
       \/ /\ o.kind = "other_error"
          /\ ePc' = "raised"
          /\ eFail' = "call_other_error"
          /\ UNCHANGED eLlm
    /\ UNCHANGED <<eIn, eRules, eOut, svars, cvars, nvars, lvars, pvars>>

\* _call_verifier, the chat flow: chat(), then _parse_json(raw)
VerifierChat(o) ==
    /\ ePc = "chat"
    /\ \/ /\ o.kind = "json"
          /\ eLlm' = Some(llm_output_of([o.payload EXCEPT !.raw_response = None], o.raw))
          /\ ePc' = "verified"
          /\ eFail' = "none"
       \/ /\ o.kind = "parse_client_error"
          /\ eLlm' = Some(unparseable_output(o.raw))
          /\ ePc' = "verified"
          /\ eFail' = "unparseable"
       \/ /\ o.kind = "chat_client_error"
          /\ eLlm' = None
          /\ ePc' = "verified"
          /\ eFail' = "call_client_error"
       \/ /\ o.kind = "other_error"
          /\ ePc' = "raised"
          /\ eFail' = "call_other_error"
          /\ UNCHANGED eLlm
    /\ UNCHANGED <<eIn, eRules, eOut, svars, cvars, nvars, lvars, pvars>>

\* evaluate() after _call_verifier returned: the SafetyCheckResult
Report ==
    /\ ePc = "verified"
    /\ eOut' = Some(safety_check_result(eRules.rule_flags, eLlm))
    /\ ePc' = "done"
    /\ UNCHANGED <<eIn, eRules, eLlm, eFail, svars, cvars, nvars, lvars, pvars>>

NextEvaluate ==
    \/ RuleBasedFlags
    \/ \E o \in VerifyMethodOutcomes : VerifySafety(o)
    \/ \E o \in VerifierChatOutcomes : VerifierChat(o)
    \/ Report

----------------------------------------------------------------------------
(* Text cleaning  (utils/text_cleaning.py) *)
(* The texts of the model are ASCII, with WhiteSpace as their          *)
(* whitespace; positions are counted from 1 (Python offset + 1).        *)

\* the position of the first "\n" of s, Len(s) + 1 when there is none
NewlineAt(s) ==
    CHOOSE i \in 1..(Len(s) + 1) :
        /\ (i = Len(s) + 1 \/ Char(s, i) = "\n")
        /\ \A k \in 1..(i - 1) : Char(s, k) # "\n"

\* text.split('\n'): the pieces between newlines, at least one
RECURSIVE Split(_)
Split(s) ==
    IF NewlineAt(s) > Len(s) THEN << s >>
    ELSE << SubSeq(s, 1, NewlineAt(s) - 1) >>
         \o Split(SubSeq(s, NewlineAt(s) + 1, Len(s)))

\* text.replace('\r\n', '\n')
RECURSIVE ReplaceCrLf(_)
ReplaceCrLf(s) ==
    IF Len(s) = 0 THEN ""
    ELSE IF Slice(s, 1, 2) = "\r\n" THEN "\n" \o ReplaceCrLf(SubSeq(s, 3, Len(s)))
    ELSE Char(s, 1) \o ReplaceCrLf(SubSeq(s, 2, Len(s)))

\* re.sub(r'[set]{least,}', by, s): every maximal run of at least `least`
\* characters of `set` becomes `by`
RECURSIVE CollapseRuns(_, _, _, _)
CollapseRuns(s, set, least, by) ==
    IF Len(s) = 0 THEN ""
    ELSE IF SpanEnd(s, 1, set) = 1
    THEN Char(s, 1) \o CollapseRuns(SubSeq(s, 2, Len(s)), set, least, by)
    ELSE (IF SpanEnd(s, 1, set) - 1 >= least THEN by
          ELSE SubSeq(s, 1, SpanEnd(s, 1, set) - 1))
         \o CollapseRuns(SubSeq(s, SpanEnd(s, 1, set), Len(s)), set, least, by)

NewlineRun == 3
BlankRun == 2

\* [line.strip() for line in lines]
StripEach(lines) == [i \in 1..Len(lines) |-> Strip(lines[i])]

\* normalize_whitespace: the newline runs are collapsed before the lines
\* are stripped
normalize_whitespace(text) ==
    IF text = "" THEN ""
    ELSE Strip(Join(StripEach(Split(
            CollapseRuns(CollapseRuns(ReplaceCrLf(text), {"\n"}, NewlineRun, "\n\n"),
                         {" ", "\t"}, BlankRun, " "))), "\n"))

\* str.isdigit() of an ASCII string
IsDigitString(s) == Len(s) > 0 /\ \A i \in 1..Len(s) : Char(s, i) \in DigitSet

KeepsLine(line) == ~IsDigitString(Strip(line))

\* remove_repeated_headers: drop the lines that hold digits only
remove_repeated_headers(text) ==
    IF text = "" THEN ""
    ELSE Join(SelectSeq(Split(text), KeepsLine), "\n")

\* re.sub(r'-\s*\n\s*', '', s): a hyphen and the whitespace run after it
\* go when that run holds a newline
RECURSIVE JoinHyphenated(_)
JoinHyphenated(s) ==
    IF Len(s) = 0 THEN ""
    ELSE IF /\ Char(s, 1) = "-"
            /\ \E k \in 2..(SpanEnd(s, 2, SpaceSet) - 1) : Char(s, k) = "\n"
    THEN JoinHyphenated(SubSeq(s, SpanEnd(s, 2, SpaceSet), Len(s)))
    ELSE Char(s, 1) \o JoinHyphenated(SubSeq(s, 2, Len(s)))

\* unidecode.unidecode maps every ASCII character to itself
unidecode(text) == text

sanitize_characters(text) ==
    IF text = "" THEN "" ELSE unidecode(JoinHyphenated(text))

----------------------------------------------------------------------------
(* NormalizationService  (services/normalization_service.py) *)

\* FALLO|FALL[ÓO]|RESUELVO|RESUELVE|FALLA over ASCII text
AnchorWords == {"FALLO", "RESUELVO", "RESUELVE", "FALLA"}
\* [:\s\n]
AnchorClass == SpaceSet \cup {":"}

\* the anchor words that stand at w followed by a character of AnchorClass
AnchorWordsAt(s, w) ==
    {a \in AnchorWords :
        /\ LiteralEnd(s, w, a) # 0
        /\ Slice(s, w + Len(a), w + Len(a)) # ""
        /\ Slice(s, w + Len(a), w + Len(a)) \in AnchorClass}

\* (^|\n)\s*(WORD)[:\s\n] tried at p: the position after the match, 0
\* when the pattern does not match there
AnchorEnd(s, p) ==
    IF p > 1 /\ Char(s, p) # "\n" THEN 0
    ELSE IF AnchorWordsAt(s, SpanEnd(s, p, SpaceSet)) = {} THEN 0
    ELSE SpanEnd(s, p, SpaceSet)
         + Len(CHOOSE a \in AnchorWordsAt(s, SpanEnd(s, p, SpaceSet)) : TRUE) + 1

\* pattern.search(text): the start of the leftmost match, 0 for no match
AnchorStart(s) ==
    IF \A p \in 1..Len(s) : AnchorEnd(s, p) = 0 THEN 0
    ELSE CHOOSE p \in 1..Len(s) :
            /\ AnchorEnd(s, p) # 0
            /\ \A q \in 1..(p - 1) : AnchorEnd(s, q) = 0

HeadingMin == 3
HeadingMax == 40
\* [A-ZÁÉÍÓÚÑ\s] over ASCII text
HeadingClass == UpperSet \cup SpaceSet

\* \s*[A-Z\s]{3,40}\s* covers s[a..b] exactly
HeadingSpan(s, a, b) ==
    /\ b - a + 1 >= HeadingMin
    /\ \A k \in a..b : Char(s, k) \in HeadingClass
    /\ \/ b - a + 1 <= HeadingMax
       \/ \E x \in 0..(b - a + 1 - HeadingMin) :
            \E y \in 0..(b - a + 1 - HeadingMin - x) :
                /\ b - a + 1 - x - y <= HeadingMax
                /\ \A k \in a..(a + x - 1) : IsSpace(Char(s, k))
                /\ \A k \in (b - y + 1)..b : IsSpace(Char(s, k))

\* \n\s*[A-Z\s]{3,40}\s*\n matches from i
HeadingAt(s, i) ==
    /\ Char(s, i) = "\n"
    /\ \E j \in (i + 1)..Len(s) : Char(s, j) = "\n" /\ HeadingSpan(s, i + 1, j - 1)

\* end_pattern.search(text, pos): the start of the leftmost match at or
\* after `from`, Len(s) + 1 (the end of the text) for no match
HeadingStart(s, from) ==
    IF \A i \in from..Len(s) : ~HeadingAt(s, i) THEN Len(s) + 1
    ELSE CHOOSE i \in from..Len(s) :
            /\ HeadingAt(s, i)
            /\ \A q \in from..(i - 1) : ~HeadingAt(s, q)

\* text[start:end] without the strip
fallo_span_unstripped(text, start) ==
    Slice(text, start, HeadingStart(text, AnchorEnd(text, start)) - 1)

\* text[start:end].strip()
fallo_span(text, start) ==
    Strip(Slice(text, start, HeadingStart(text, AnchorEnd(text, start)) - 1))

\* NormalizationService.extract_fallo_literal
extract_fallo_literal(text) ==
    IF text = "" THEN None
    ELSE IF AnchorStart(text) = 0 THEN None
    ELSE IF fallo_span(text, AnchorStart(text)) = "" THEN None
    ELSE Some(fallo_span(text, AnchorStart(text)))

SECTION_KEYWORDS ==
    << [name |-> "ENCABEZADO",
        keywords |-> << "JUZGADO", "MAGISTRADO", "AUDIENCIA PROVINCIAL",
                        "TRIBUNAL SUPERIOR" >>],
       [name |-> "ANTECEDENTES DE HECHO",
        keywords |-> << "ANTECEDENTES DE HECHO", "ANTECEDENTES" >>],
       [name |-> "FUNDAMENTOS DE DERECHO",
        keywords |-> << "FUNDAMENTOS DE DERECHO", "FUNDAMENTOS JURIDICOS" >>],
       [name |-> "FALLO", keywords |-> << "FALLO", "RESUELVO" >>],
       [name |-> "PETICIONES", keywords |-> << "SUPLICO", "SOLICITO", "PETICION" >>] >>

\* s.find(kw) + 1: the first position of kw in s, 0 when it is not there
Find(s, kw) ==
    IF ~Contains(s, kw) THEN 0
    ELSE CHOOSE i \in 1..Len(s) :
            /\ Slice(s, i, i + Len(kw) - 1) = kw
            /\ \A q \in 1..(i - 1) : Slice(s, q, q + Len(kw) - 1) # kw

\* min(matches) over the keywords found in upper, 0 when none is
EarliestKeyword(upper, keywords) ==
    IF \A k \in 1..Len(keywords) : Find(upper, keywords[k]) = 0 THEN 0
    ELSE CHOOSE m \in {Find(upper, keywords[k]) : k \in 1..Len(keywords)} \ {0} :
            \A k \in 1..Len(keywords) :
                Find(upper, keywords[k]) = 0 \/ m <= Find(upper, keywords[k])

\* the markers (offset, section name) in the order of SECTION_KEYWORDS
RECURSIVE markers_of(_, _)
markers_of(upper, table) ==
    IF Len(table) = 0 THEN << >>
    ELSE (IF EarliestKeyword(upper, Head(table).keywords) = 0 THEN << >>
          ELSE << << EarliestKeyword(upper, Head(table).keywords), Head(table).name >> >>)
         \o markers_of(upper, Tail(table))

\* one marker put into a list sorted by offset, after its equals
RECURSIVE InsertMarker(_, _)
InsertMarker(marker, sorted) ==
    IF Len(sorted) = 0 THEN << marker >>
    ELSE IF marker[1] < Head(sorted)[1] THEN << marker >> \o sorted
    ELSE << Head(sorted) >> \o InsertMarker(marker, Tail(sorted))

\* the markers left in the order of the keyword table
markers_as_found(markers) == markers

\* markers.sort(key=lambda item: item[0]), a stable sort
RECURSIVE SortMarkers(_)
SortMarkers(markers) ==
    IF Len(markers) = 0 THEN << >>
    ELSE InsertMarker(markers[Len(markers)],
                      SortMarkers(SubSeq(markers, 1, Len(markers) - 1)))

BodyConfidence == 30
SnippetConfidence == 80
EmptySnippetConfidence == 60

\* DocumentSection(name, content=snippet or None, confidence)
DocumentSection(name, snippet, confidence) ==
    [name |-> name,
     content |-> IF snippet = "" THEN None ELSE Some(snippet),
     confidence |-> confidence]

\* text[start:end] of the marker at idx, before the strip
MarkerSpan(text, markers, idx) ==
    Slice(text, markers[idx][1],
          (IF idx < Len(markers) THEN markers[idx + 1][1] ELSE Len(text) + 1) - 1)

\* snippet = text[start:end].strip()
snippet_of(text, markers, idx) == Strip(MarkerSpan(text, markers, idx))

\* the sections of the sorted markers
sections_of(text, markers) ==
    [idx \in 1..Len(markers) |->
        DocumentSection(markers[idx][2], snippet_of(text, markers, idx),
                        IF snippet_of(text, markers, idx) # ""
                        THEN SnippetConfidence ELSE EmptySnippetConfidence)]

\* NormalizationService._segment_sections
segment_sections(text) ==
    IF text = "" THEN << >>
    ELSE IF markers_of(Upper(text), SECTION_KEYWORDS) = << >>
    THEN << DocumentSection("CUERPO", Strip(text), BodyConfidence) >>
    ELSE sections_of(text, SortMarkers(markers_of(Upper(text), SECTION_KEYWORDS)))

\* the three cleaning steps of normalize
cleaned_of(raw_text) ==
    normalize_whitespace(remove_repeated_headers(sanitize_characters(raw_text)))

\* a dict as the set of its (key, value) pairs; d[key] = value
DictSet(d, key, value) == {kv \in d : kv[1] # key} \cup {<< key, value >>}
DictHas(d, key) == \E kv \in d : kv[1] = key
DictGet(d, key) == (CHOOSE kv \in d : kv[1] = key)[2]

\* ingest_result.metadata after normalize: extra["falloLiteral"] = fallo,
\* written into the caller's object, when a clause was found
metadata_after(metadata, fallo) ==
    IF Truthy(fallo)
    THEN [metadata EXCEPT !.extra = DictSet(@, "falloLiteral", Val(fallo))]
    ELSE metadata

\* SegmentedDocument(rawText, normalizedText, sections, metadata)
SegmentedDocument(raw_text, cleaned, sections, metadata) ==
    [rawText |-> raw_text, normalizedText |-> cleaned,
     sections |-> sections, metadata |-> metadata]

MaxParts == 2

\* pieces of raw text: the text of the repository's test, page numbers,
\* blank lines, hyphenated line ends, clause anchors and upper-case headings
RawParts ==
    { "JUZGADO 5\r\n\r\n\r\n", "SENTENCIA -\n de prueba", "12\n", " \n \t\nb",
      "a\n", "  ", "FALLO: se  estima\n", "\nFIRMAS\nfin",
      "ANTECEDENTES \tde hecho\n", "suplico al juzgado\n", "resuelvo: x\nSE ESTIMA\nfin",
      "\n\n 7 \nFalla", "x\r\n\n\n\n" }

RawTexts == {Join(ps, "") : ps \in SeqUpTo(RawParts, MaxParts)}

\* the metadata IngestService builds: extra is {} for pasted text and
\* {"bytes": n} for a file
IngestMetadata ==
    { [sourceType |-> "text", extra |-> {}],
      [sourceType |-> "pdf", extra |-> {<< "bytes", "4" >>}] }

IngestResults == {[rawText |-> t, metadata |-> m] : t \in RawTexts, m \in IngestMetadata}

InitNormalizeVars ==
    /\ nIn \in IngestResults
    /\ nPc = "called"
    /\ nClean = None
    /\ nFallo = None
    /\ nOut = None
    /\ nErr = None

IdleNormalizeVars ==
    /\ nIn = None
    /\ nPc = "idle"
    /\ nClean = None
    /\ nFallo = None
    /\ nOut = None
    /\ nErr = None

\* normalize, lines 29-31: `if not raw_text: raise ValueError`
RejectEmpty ==
    /\ nPc = "called"
    /\ nIn.rawText = ""
    /\ nPc' = "raised"
    /\ nErr' = Some("ValueError")
    /\ UNCHANGED <<nIn, nClean, nFallo, nOut, svars, cvars, evars, lvars, pvars>>

\* normalize, lines 33-35: the three cleaning steps
CleanText ==
    /\ nPc = "called"
    /\ nIn.rawText # ""
    /\ nClean' = Some(cleaned_of(nIn.rawText))
    /\ nPc' = "cleaned"
    /\ UNCHANGED <<nIn, nFallo, nOut, nErr, svars, cvars, evars, lvars, pvars>>

\* normalize, lines 37-62: sections, clause, the write into the metadata
\* of the IngestResult, and the SegmentedDocument that shares that metadata
BuildSegmented ==
    /\ nPc = "cleaned"
    /\ \E fallo \in {extract_fallo_literal(Val(nClean))} :
        /\ nFallo' = fallo
        /\ nIn' = [nIn EXCEPT !.metadata = metadata_after(@, fallo)]
        /\ nOut' = Some(SegmentedDocument(nIn.rawText, Val(nClean),
                                          segment_sections(Val(nClean)),
                                          metadata_after(nIn.metadata, fallo)))
    /\ nPc' = "returned"
    /\ UNCHANGED <<nClean, nErr, svars, cvars, evars, lvars, pvars>>

NextNormalize == RejectEmpty \/ CleanText \/ BuildSegmented

----------------------------------------------------------------------------
(* LLMClient  (clients/llm_client.py) *)

PLACEHOLDER_API_KEY == "DEEPSEEK_API_KEY_PLACEHOLDER"

\* __init__: settings.get("llm_api_key") or settings.get("api_key") or
\* PLACEHOLDER_API_KEY.  llm_retries is in the settings dict (config.py:91)
\* and is never read.
api_key_of(settings) ==
    IF Truthy(settings.llm_api_key) THEN Val(settings.llm_api_key)
    ELSE IF Truthy(settings.api_key) THEN Val(settings.api_key)
    ELSE PLACEHOLDER_API_KEY

Returns(value) == [kind |-> "returned", value |-> value]
Raises(error) == [kind |-> "raised", error |-> error]

\* what requests.post and the provider do on one request: an HTTP or
\* transport failure, a body without choices, or a body with one message
HttpError == [kind |-> "http_error", choices |-> << >>]
NoChoices == [kind |-> "body", choices |-> << >>]
Message(content) == [kind |-> "body", choices |-> << content >>]

\* _chat past the API key check: one requests.post, raise_for_status,
\* the content of the first choice
chat_once(reply) ==
    IF reply.kind = "http_error" THEN Raises("HTTPError")
    ELSE IF reply.choices = << >> THEN Raises("RuntimeError")
    ELSE Returns(reply.choices[1])

\* The "confidence" member of a parsed object: absent, a number (in
\* hundredths), a text that is no number, or null
ConfidenceAbsent == [kind |-> "absent", value |-> 0]
ConfidenceNumber(n) == [kind |-> "number", value |-> n]
ConfidenceText == [kind |-> "text", value |-> 0]
ConfidenceNull == [kind |-> "null", value |-> 0]

\* The message contents of the model
JsonSentencia ==
    "{\"doc_type\": \"RESOLUCION_JURIDICA\", \"doc_subtype\": \"SENTENCIA\", \"confidence\": 0.91}"
JsonTypeOnly == "{\"doc_type\": \"ESCRITO_PROCESAL\"}"
JsonNegative == "{\"doc_type\": \"OTRO\", \"confidence\": -0.5}"
JsonTextConfidence == "{\"confidence\": \"alta\"}"
JsonNullConfidence == "{\"confidence\": null}"
JsonList == "[1, 2]"
JsonNull == "null"
JsonNumber == "3"
JsonText == "\"texto\""
NoJson == "no-json"

MessageContents ==
    {JsonSentencia, JsonTypeOnly, JsonNegative, JsonTextConfidence, JsonNullConfidence,
     JsonList, JsonNull, JsonNumber, JsonText, NoJson}

JsonObject(doc_type, doc_subtype, confidence, repr) ==
    [kind |-> "dict", doc_type |-> doc_type, doc_subtype |-> doc_subtype,
     confidence |-> confidence, repr |-> repr]
JsonOther(kind) ==
    [kind |-> kind, doc_type |-> None, doc_subtype |-> None,
     confidence |-> ConfidenceAbsent, repr |-> ""]

\* json.loads(raw): a dict (with the members callClassifier reads and its
\* str()), a value that is no dict, or JSONDecodeError
json_loads(raw) ==
    IF raw = JsonSentencia
    THEN JsonObject(Some("RESOLUCION_JURIDICA"), Some("SENTENCIA"), ConfidenceNumber(91),
            "{'doc_type': 'RESOLUCION_JURIDICA', 'doc_subtype': 'SENTENCIA', 'confidence': 0.91}")
    ELSE IF raw = JsonTypeOnly
    THEN JsonObject(Some("ESCRITO_PROCESAL"), None, ConfidenceAbsent,
            "{'doc_type': 'ESCRITO_PROCESAL'}")
    ELSE IF raw = JsonNegative
    THEN JsonObject(Some("OTRO"), None, ConfidenceNumber(0 - 50),
            "{'doc_type': 'OTRO', 'confidence': -0.5}")
    ELSE IF raw = JsonTextConfidence
    THEN JsonObject(None, None, ConfidenceText, "{'confidence': 'alta'}")
    ELSE IF raw = JsonNullConfidence
    THEN JsonObject(None, None, ConfidenceNull, "{'confidence': None}")
    ELSE IF raw \in {JsonList, JsonNull, JsonNumber, JsonText}
    THEN JsonOther("not_a_dict")
    ELSE JsonOther("JSONDecodeError")

\* float(data.get("confidence", 0.0)): the exception it raises, "" for none
float_raises(confidence) ==
    IF confidence.kind = "text" THEN "ValueError"
    ELSE IF confidence.kind = "null" THEN "TypeError"
    ELSE ""

\* the keyword lists of callClassifier that can occur in ASCII text
ResolutionKeywords ==
    {"SENTENCIA", "AUTO", "FALLO", "FUNDAMENTOS DE DERECHO", "ANTECEDENTES DE HECHO",
     "JUZGADO DE PRIMERA INSTANCIA", "MAGISTRADO", "MAGISTRADA"}
FilingKeywords ==
    {"SUPLICO AL JUZGADO", "AL JUZGADO", "AL JUZGADO DE", "DEMANDA", "RECURSO",
     "ESCRITO DE ALEGACIONES"}

SnippetChars == 8000
ClearRuleConfidence == 90

ClassifierAnswer(doc_type, doc_subtype, confidence, raw_response) ==
    [doc_type |-> doc_type, doc_subtype |-> doc_subtype,
     confidence |-> confidence, raw_response |-> raw_response]

\* callClassifier, step 1: the rules on text[:8000].upper()
classifier_rules(upper, tag) ==
    IF (\E kw \in ResolutionKeywords : Contains(upper, kw))
       /\ ~(\E kw \in FilingKeywords : Contains(upper, kw))
    THEN ClassifierAnswer("RESOLUCION_JURIDICA",
            IF Contains(upper, "SENTENCIA") THEN "SENTENCIA"
            ELSE IF Contains(upper, "AUTO") THEN "AUTO" ELSE "DESCONOCIDO",
            ClearRuleConfidence, tag)
    ELSE IF (\E kw \in FilingKeywords : Contains(upper, kw))
            /\ ~(\E kw \in ResolutionKeywords : Contains(upper, kw))
    THEN ClassifierAnswer("ESCRITO_PROCESAL",
            IF Contains(upper, "DEMANDA") THEN "DEMANDA"
            ELSE IF Contains(upper, "RECURSO") THEN "RECURSO" ELSE "DESCONOCIDO",
            ClearRuleConfidence, tag)
    ELSE ClassifierAnswer("OTRO", "DESCONOCIDO", 0, tag)

rules_of(text, tag) == classifier_rules(Upper(Slice(text, 1, SnippetChars)), tag)

\* callClassifier, step 3 (after the try): data.get on a value that is no
\* dict and float() of a confidence that is no number raise; otherwise the
\* fields of the parsed answer, overridden by the rules when these are more
\* confident
classifier_from_data(text, data, raw) ==
    IF data.kind # "dict" THEN Raises("AttributeError")
    ELSE IF float_raises(data.confidence) # "" THEN Raises(float_raises(data.confidence))
    ELSE IF rules_of(text, "").confidence > data.confidence.value
    THEN Returns(rules_of(text, "LLM:" \o data.repr \o " | APPLIED_RULE_OVERRIDE"))
    ELSE Returns(ClassifierAnswer(
            IF IsNone(data.doc_type) THEN "OTRO" ELSE Val(data.doc_type),
            IF IsNone(data.doc_subtype) THEN "DESCONOCIDO" ELSE Val(data.doc_subtype),
            data.confidence.value,
            raw))

\* callClassifier, step 2: `except Exception` around _chat and json.loads
\* answers with the rules
classifier_after_chat(text, chat) ==
    IF chat.kind = "raised" \/ json_loads(chat.value).kind = "JSONDecodeError"
    THEN Returns(rules_of(text, "RULE_FALLBACK"))
    ELSE classifier_from_data(text, json_loads(chat.value), chat.value)

\* the value json.loads(raw) of a JSON text, named by that text
Parsed(raw) == [parsed |-> raw]

GuideFallback ==
    [meaning_for_you |-> "No se ha podido generar la explicación correctamente.",
     what_to_do_now |-> "", what_happens_next |-> "", deadlines_and_risks |-> ""]

\* callGuideGenerator: an exception of _chat propagates, JSONDecodeError
\* gives the fallback dict, any parsed value is returned as it is
guide_after_chat(chat) ==
    IF chat.kind = "raised" THEN chat
    ELSE IF json_loads(chat.value).kind = "JSONDecodeError" THEN Returns(GuideFallback)
    ELSE Returns(Parsed(chat.value))

VerifierFallback(raw) ==
    [is_safe |-> FALSE,
     warnings |-> << "No se ha podido verificar correctamente el significado." >>,
     raw_response |-> raw]

\* callVerifier: as the guide, then data["raw_response"] = raw, which
\* raises TypeError on a value that is no dict
verifier_after_chat(chat) ==
    IF chat.kind = "raised" THEN chat
    ELSE IF json_loads(chat.value).kind = "JSONDecodeError"
    THEN Returns(VerifierFallback(chat.value))
    ELSE IF json_loads(chat.value).kind # "dict" THEN Raises("TypeError")
    ELSE Returns([parsed |-> chat.value, raw_response |-> chat.value])

Operations ==
    {"_chat", "callClassifier", "callSimplifier", "callGuideGenerator", "callVerifier"}

\* what the operation does with the outcome of _chat (callSimplifier
\* returns it as it is)
operation_outcome(op, text, chat) ==
    IF op = "callClassifier" THEN classifier_after_chat(text, chat)
    ELSE IF op = "callGuideGenerator" THEN guide_after_chat(chat)
    ELSE IF op = "callVerifier" THEN verifier_after_chat(chat)
    ELSE chat

MaxRetries == 1

ClientTexts == {"texto", "Sentencia con fallo.", "Demanda de juicio", "Recurso contra el auto"}

ProviderReplies == {HttpError, NoChoices} \cup {Message(c) : c \in MessageContents}

\* the settings dict the client is built from, as far as it matters
ClientSettings ==
    {[llm_api_key |-> k, api_key |-> a, llm_retries |-> n] :
        k \in {None, Some("test-key")}, a \in {None, Some("legacy-key")},
        n \in 0..MaxRetries}

\* a call of an operation, with the replies the provider would give to the
\* first, second, ... request
ClientCalls ==
    {[op |-> op, text |-> t, settings |-> s, replies |-> rs] :
        op \in Operations, t \in ClientTexts, s \in ClientSettings,
        rs \in [1..(MaxRetries + 1) -> ProviderReplies]}

InitClientVars ==
    /\ lIn \in ClientCalls
    /\ (lIn.op # "callClassifier" => lIn.text = "texto")
    /\ lPc = IF lIn.op = "callClassifier" THEN "rules" ELSE "chat"
    /\ lPosts = 0
    /\ lOut = None

IdleClientVars ==
    /\ lIn = None
    /\ lPc = "idle"
    /\ lPosts = 0
    /\ lOut = None

\* callClassifier, lines 117-180: the rules answer alone when they are clear
ClassifierRules ==
    /\ lPc = "rules"
    /\ IF rules_of(lIn.text, "RULE_BASED").confidence >= ClearRuleConfidence
       THEN lPc' = "done" /\ lOut' = Some(Returns(rules_of(lIn.text, "RULE_BASED")))
       ELSE lPc' = "chat" /\ lOut' = lOut
    /\ UNCHANGED <<lIn, lPosts, svars, cvars, evars, nvars, pvars>>

\* _chat, lines 56-59: no request without an API key
MissingKey ==
    /\ lPc = "chat"
    /\ api_key_of(lIn.settings) = PLACEHOLDER_API_KEY
    /\ lPc' = "done"
    /\ lOut' = Some(operation_outcome(lIn.op, lIn.text, Raises("RuntimeError")))
    /\ UNCHANGED <<lIn, lPosts, svars, cvars, evars, nvars, pvars>>

\* _chat, lines 61-89: the one request, and what the operation makes of it
Post ==
    /\ lPc = "chat"
    /\ api_key_of(lIn.settings) # PLACEHOLDER_API_KEY
    /\ lPosts' = lPosts + 1
    /\ lPc' = "done"
    /\ lOut' = Some(operation_outcome(lIn.op, lIn.text, chat_once(lIn.replies[lPosts + 1])))
    /\ UNCHANGED <<lIn, svars, cvars, evars, nvars, pvars>>

NextClient == ClassifierRules \/ MissingKey \/ Post

----------------------------------------------------------------------------
(* process_document_endpoint  (app.py) *)

Stages == << "classify", "simplify", "guide", "evaluate" >>

\* how the external capability behaves when a stage calls it: a usable
\* answer, text that is no JSON, JSON that is no object, LLMClientError, or
\* any other exception
Behaviours == {"ok", "unparseable", "not_a_dict", "client_error", "other_error"}

\* the exception that leaves the stage, None when the stage returns
stage_error(stage, behaviour, rules_confident) ==
    IF stage = "classify"
    THEN \* classification_service.py:166-192: every exception is caught,
         \* data.get on a value that is no dict is outside the try
         IF ~rules_confident /\ behaviour = "not_a_dict" THEN Some("AttributeError")
         ELSE None
    ELSE IF stage = "simplify"
    THEN \* simplification_service.py:86-93: user_prompt is called with
         \* keyword arguments it does not have, before the try
         Some("TypeError")
    ELSE IF stage = "guide"
    THEN \* legal_guide_service.py:49-70: every exception is caught,
         \* data.get is outside the try
         IF behaviour = "not_a_dict" THEN Some("AttributeError") ELSE None
    ELSE \* safety_check_service.py:157-202: only LLMClientError is caught
         IF behaviour = "other_error" THEN Some("RuntimeError")
         ELSE IF behaviour = "not_a_dict" THEN Some("AttributeError")
         ELSE None

StageIndex(stage) == CHOOSE i \in 1..Len(Stages) : Stages[i] = stage

Requests ==
    {[behaviour |-> b, rulesConfident |-> c] :
        b \in [{Stages[i] : i \in 1..Len(Stages)} -> Behaviours], c \in BOOLEAN}

InitPipelineVars ==
    /\ pIn \in Requests
    /\ pPc = Stages[1]
    /\ pOut = None

IdlePipelineVars ==
    /\ pIn = None
    /\ pPc = "idle"
    /\ pOut = None

\* app.py:79-92: the next stage runs; its exception leaves the handler,
\* the last stage is followed by the response
RunStage ==
    /\ pPc \in {Stages[i] : i \in 1..Len(Stages)}
    /\ \E err \in {stage_error(pPc, pIn.behaviour[pPc], pIn.rulesConfident)} :
        IF ~IsNone(err)
        THEN pPc' = "aborted" /\ pOut' = Some(Raises(Val(err)))
        ELSE IF StageIndex(pPc) < Len(Stages)
        THEN pPc' = Stages[StageIndex(pPc) + 1] /\ pOut' = pOut
        ELSE pPc' = "responded" /\ pOut' = Some(Returns("ProcessDocumentResponse"))
    /\ UNCHANGED <<pIn, svars, cvars, evars, nvars, lvars>>

NextPipeline == RunStage

----------------------------------------------------------------------------
(* Specifications *)

\* the services that a specification leaves alone
IdleOthers == IdleNormalizeVars /\ IdleClientVars /\ IdlePipelineVars

InitSimplify == InitSimplifyVars /\ IdleClassifyVars /\ IdleEvaluateVars /\ IdleOthers
InitClassify == InitClassifyVars /\ IdleSimplifyVars /\ IdleEvaluateVars /\ IdleOthers
InitEvaluate == InitEvaluateVars /\ IdleSimplifyVars /\ IdleClassifyVars /\ IdleOthers
\* the services of the pipeline, left alone by the last three specifications
IdleServices == IdleSimplifyVars /\ IdleClassifyVars /\ IdleEvaluateVars

InitNormalize == InitNormalizeVars /\ IdleServices /\ IdleClientVars /\ IdlePipelineVars
InitClient == InitClientVars /\ IdleServices /\ IdleNormalizeVars /\ IdlePipelineVars
InitPipeline == InitPipelineVars /\ IdleServices /\ IdleNormalizeVars /\ IdleClientVars

\* SimplificationService.simplify called twice on one document
SpecSimplify == InitSimplify /\ [][NextSimplify]_vars

\* _normalize_payload and _render_simplified_text applied twice to the clause
\* of one document, each time to a payload of RewritePayloads
SpecRender == InitSimplify /\ [][NextRender]_vars

\* ClassificationService.classify called on one document
SpecClassify == InitClassify /\ [][NextClassify]_vars

\* SafetyCheckService.evaluate alone
SpecEvaluate == InitEvaluate /\ [][NextEvaluate]_vars

\* NormalizationService.normalize called on one IngestResult
SpecNormalize == InitNormalize /\ [][NextNormalize]_vars

\* one call of LLMClient._chat or LLMClient.callClassifier
SpecClient == InitClient /\ [][NextClient]_vars

\* one request through the stages of process_document_endpoint
SpecPipeline == InitPipeline /\ [][NextPipeline]_vars

Init ==
    \/ InitSimplify \/ InitClassify \/ InitEvaluate
    \/ InitNormalize \/ InitClient \/ InitPipeline
Next ==
    \/ NextSimplify \/ NextRender \/ NextClassify \/ NextEvaluate
    \/ NextNormalize \/ NextClient \/ NextPipeline
Spec == Init /\ [][Next]_vars

----------------------------------------------------------------------------
(* Properties of the helpers of SimplificationService, checked under
   SpecRender *)

Done(r) == sRun[r].state = "rendered"

\* the literal clause the helpers are given, upper-cased ("" when there is none)
FalloUpper == Upper(OrEmpty(fallo_literal_of(sDoc)))

\* a dismissal verb phrase in the clause
HasDismissal(u) == Contains(u, "SE DESESTIMA") \/ Contains(u, "DESESTIMA LA DEMANDA")

\* an estimation verb in the clause: the word ESTIMA, ESTIMAR, ESTIMAMOS ...,
\* not the tail of DESESTIMA
HasEstimation(u) ==
    \E i \in 1..(Len(u) - 5) :
        /\ SubSeq(u, i, i + 5) = "ESTIMA"
        /\ (i = 1 \/ ~IsWordChar(Char(u, i - 1)))

\* the winner the payload of a run proposes, "" when it proposes none
ProposedWho(r) ==
    LET data == sRun[r].outcome.data
    IN IF data.isDict /\ ~IsNone(data.decisionFallo)
       THEN OrEmpty(Val(data.decisionFallo).whoWins) ELSE ""

\* the outcome text the payload of a run proposes, "" when it proposes none
ProposedPlainText(r) ==
    LET data == sRun[r].outcome.data
    IN IF data.isDict /\ ~IsNone(data.decisionFallo)
       THEN OrEmpty(Val(data.decisionFallo).plainText) ELSE ""

\* C1: a clause with a dismissal verb phrase (SE DESESTIMA, DESESTIMA LA
\* DEMANDA) and no estimation verb yields whoWins = demandado, whatever the
\* payload.
C1_DismissalYieldsRespondent ==
    \A r \in Runs :
        (Done(r) /\ HasDismissal(FalloUpper) /\ ~HasEstimation(FalloUpper))
            => sRun[r].decision.whoWins = "demandado"

\* C2: two derivations of the decision for the same document (same
\* operative clause) that differ only in what the external capability
\* returned agree on whoWins and on costs.
C2_OutcomeNonInterference ==
    (\A r \in Runs : Done(r)) =>
        \A a, b \in Runs :
            /\ sRun[a].decision.whoWins = sRun[b].decision.whoWins
            /\ sRun[a].decision.costs = sRun[b].decision.costs

\* C2 witness: two derivations over a document with a clause, one from a
\* payload proposing a winner the clause does not give, the other from the
\* empty payload that a failed call leaves
C2_TwoRunsDifferentPayloads ==
    /\ \A r \in Runs : Done(r)
    /\ Truthy(sDoc.falloLiteral)
    /\ ProposedWho("A") # ""
    /\ ProposedWho("A") # sRun["A"].decision.whoWins
    /\ sRun["B"].outcome.data = PayloadEmptyDict

\* C4: without an operative clause the outcome summary (plainText and the
\* "Resumen breve" line) states that no ruling clause was located and holds
\* no outcome text proposed by the external capability.  Stated by what it
\* entails: the summary is not empty, and the proposed text is not in it.
C4_NoClauseSummaryNotFromCapability ==
    \A r \in Runs :
        (Done(r) /\ IsNone(sDoc.falloLiteral)) =>
            /\ sRun[r].decision.plainText # ""
            /\ ~Contains(sRun[r].result.simplifiedText, "- Resumen breve: \n")
            /\ ProposedPlainText(r) # "" =>
                  /\ ~Contains(sRun[r].decision.plainText, ProposedPlainText(r))
                  /\ ~Contains(sRun[r].result.simplifiedText,
                               "- Resumen breve: " \o ProposedPlainText(r))

\* a report is at hand, returned by simplify() or rendered by the helpers
HasResult(r) == sRun[r].state \in {"returned", "rendered"}

StartsWith(s, prefix) ==
    Len(s) >= Len(prefix) /\ SubSeq(s, 1, Len(prefix)) = prefix

ReportHeadings ==
    << "[1] Datos del caso",
       "[2] Partes involucradas",
       "[3] Lo que paso antes (contexto procesal)",
       "[4] Resultado del caso (segun el FALLO)" >>

\* C20: every rendered report holds the four block headings [1], [2], [3],
\* [4] in this order, each exactly once, for every external payload; the
\* winner line and the costs line sit inside block [4].
C20_FourBlocksInFixedOrder ==
    \A r \in Runs :
        HasResult(r) =>
            LET lines == SplitLines(sRun[r].result.simplifiedText)
                At(h) == {i \in 1..Len(lines) : lines[i] = ReportHeadings[h]}
            IN /\ \A h \in 1..4 : Cardinality(At(h)) = 1
               /\ \A h \in 1..3 : \A i \in At(h), j \in At(h + 1) : i < j
               /\ \A i \in 1..Len(lines) :
                      (StartsWith(lines[i], "- Quien gana: ")
                          \/ StartsWith(lines[i], "- Costas: "))
                          => \A j \in At(4) : i > j

----------------------------------------------------------------------------
(* Properties of SimplificationService.simplify, checked under SpecSimplify *)

\* a call of simplify() has ended, by returning or by raising
Ended(r) == sRun[r].state \in {"returned", "raised"}

ExternalCallFailed(r) == sRun[r].outcome.kind \in {"chat_error", "parse_error"}

\* C3: without an operative clause simplify produces the decision whoWins =
\* desconocido, costs = desconocido, falloLiteral = "", for every external
\* payload, and the report shows the same.
C3_NoClauseUnknownOutcome ==
    \A r \in Runs :
        (Ended(r) /\ IsNone(sDoc.falloLiteral)) =>
            /\ sRun[r].state = "returned"
            /\ sRun[r].decision.whoWins = "desconocido"
            /\ sRun[r].decision.costs = "desconocido"
            /\ sRun[r].decision.falloLiteral = ""
            /\ Contains(sRun[r].result.simplifiedText,
                        "\n- Quien gana: desconocido\n- Costas: desconocido\n")
            /\ ~Contains(sRun[r].result.simplifiedText, "- Fallo literal:")

\* C17: when the document text is longer than the length limit (13,000
\* characters against MAX_CHARS = 12,000) simplify returns truncated = true
\* and a warnings list whose first entry mentions truncation; for a text
\* within the limit truncated is false.
C17_LongTextFlaggedTruncated ==
    \A r \in Runs :
        Ended(r) =>
            /\ sRun[r].state = "returned"
            /\ IF Len(sDoc.normalizedText) > MAX_CHARS
               THEN /\ sRun[r].result.truncated
                    /\ Len(sRun[r].result.warnings) > 0
                    /\ Contains(sRun[r].result.warnings[1], "trunc")
               ELSE ~sRun[r].result.truncated

\* C18: an operative clause that is present is never lost: for every text
\* length simplify returns a result with the full literal clause in
\* decisionFallo.falloLiteral and in the rendered report.
C18_ClauseSurvivesTruncation ==
    \A r \in Runs :
        (Ended(r) /\ Truthy(fallo_literal_of(sDoc))) =>
            /\ sRun[r].state = "returned"
            /\ sRun[r].decision.falloLiteral = Val(fallo_literal_of(sDoc))
            /\ Contains(sRun[r].result.simplifiedText, Val(fallo_literal_of(sDoc)))

\* C19: when the external rewriting capability fails (the call raises, the
\* output cannot be parsed) simplify does not fail and the source text is
\* passed through: it is present in the returned rewrite.
C19_FailedRewritePassesTextThrough ==
    \A r \in Runs :
        /\ sRun[r].state # "raised"
        /\ (HasResult(r) /\ ExternalCallFailed(r)) =>
               Contains(sRun[r].result.simplifiedText, sDoc.normalizedText)

----------------------------------------------------------------------------
(* Properties of ClassificationService, checked under SpecClassify *)

RuleKnown == ~IsNone(cRule)

Returned == cPc = "done"

CourtSubtypes == {"SENTENCIA", "AUTO", "DECRETO", "PROVIDENCIA"}

\* no type keyword and no subtype keyword of the tables matches the document
NoKeywordMatches(document) ==
    LET text == Upper(document.normalizedText)
        sections == [i \in 1..Len(document.sections) |-> Upper(document.sections[i])]
        header_text == header_text_of(document)
    IN /\ \A i \in 1..Len(TYPE_KEYWORDS) :
              type_matches_of(TYPE_KEYWORDS[i].name, TYPE_KEYWORDS[i].keywords,
                              text, sections).score = 0
       /\ \A i \in 1..Len(SUBTYPE_KEYWORDS) :
              subtype_matches_of(SUBTYPE_KEYWORDS[i].name, SUBTYPE_KEYWORDS[i].keywords,
                                 header_text, text).score = 0
       /\ IsNone(forced_subtype_of(header_text))

\* C5: when the rule confidence reaches rule_threshold the external
\* capability is never called, and what classify returns is the rule result,
\* source RULES_ONLY.
C5_ConfidentRulesNoExternalCall ==
    (RuleKnown /\ Val(cRule).confidence >= cCfg.rule_threshold) =>
        /\ cCalls = 0
        /\ cPc \in {"rules", "done"}
        /\ Returned => /\ cOut = cRule
                       /\ Val(cOut).source = "RULES_ONLY"

\* C5 witness: classify returned on a rule confidence that reaches
\* rule_threshold and lies below force_llm_threshold
C5_ReturnedOnConfidentRules ==
    /\ Returned
    /\ Val(cRule).confidence >= cCfg.rule_threshold
    /\ Val(cRule).confidence < cCfg.force_llm_threshold
    /\ cCalls = 0

\* C6: whenever the external classification fails (the call raises, the
\* answer cannot be parsed, the answer is malformed) classify returns the
\* rule result unchanged, source RULES_ONLY, and raises nothing.
C6_ExternalFailureDegradesToRules ==
    cFail # "none" =>
        /\ Returned
        /\ cOut = cRule
        /\ Val(cOut).source = "RULES_ONLY"

\* C7: when an external result was obtained, classify returns it (type,
\* subtype, confidence) with source HYBRID and the rule explanations followed
\* by the external ones exactly when its confidence is strictly greater than
\* the rule confidence; otherwise it returns the rule result unchanged.
C7_FusionStrictlyGreater ==
    (Returned /\ ~IsNone(cLlm)) =>
        LET rule == Val(cRule)
            llm == Val(cLlm)
            out == Val(cOut)
        IN IF llm.confidence > rule.confidence
           THEN out = [docType |-> llm.docType,
                       docSubtype |-> llm.docSubtype,
                       confidence |-> llm.confidence,
                       source |-> "HYBRID",
                       explanations |-> rule.explanations \o llm.explanations]
           ELSE out = rule /\ out.source # "HYBRID"

\* C7 witness: a returned fusion in which the external result won
C7_ReturnedHybrid ==
    /\ Returned
    /\ ~IsNone(cLlm)
    /\ Val(cLlm).confidence > Val(cRule).confidence
    /\ Val(cOut).source = "HYBRID"
    /\ Len(Val(cOut).explanations) = Len(Val(cRule).explanations) + 1

\* C8: every result classify returns is coherent: a subtype in SENTENCIA,
\* AUTO, DECRETO, PROVIDENCIA comes with docType RESOLUCION_JURIDICA.
C8_CourtSubtypeImpliesResolution ==
    Returned =>
        (Val(cOut).docSubtype \in CourtSubtypes => Val(cOut).docType = "RESOLUCION_JURIDICA")

\* C9: a document in which no type keyword and no subtype keyword matches
\* gets OTRO, DESCONOCIDO and confidence 0 from the rule estimator.
C9_NoMatchZeroConfidence ==
    (RuleKnown /\ NoKeywordMatches(cDoc)) =>
        /\ Val(cRule).docType = "OTRO"
        /\ Val(cRule).docSubtype = "DESCONOCIDO"
        /\ Val(cRule).confidence = 0

\* C10: with rule_threshold 0.8, a document whose header holds the word
\* SENTENCIA and whose text holds SE DESESTIMA LA DEMANDA and COSTAS A LA
\* PARTE ACTORA is returned as RESOLUCION_JURIDICA, SENTENCIA, RULES_ONLY
\* with confidence >= 0.8.
C10_JudgmentHeaderConfident ==
    (/\ Returned
     /\ cCfg.rule_threshold = 80
     /\ SearchWord(header_text_of(cDoc), "SENTENCIA")
     /\ Contains(cDoc.normalizedText, "SE DESESTIMA LA DEMANDA")
     /\ Contains(cDoc.normalizedText, "COSTAS A LA PARTE ACTORA"))
        => /\ Val(cOut).docType = "RESOLUCION_JURIDICA"
           /\ Val(cOut).docSubtype = "SENTENCIA"
           /\ Val(cOut).source = "RULES_ONLY"
           /\ Val(cOut).confidence >= 80

----------------------------------------------------------------------------
(* Properties of SafetyCheckService, checked under SpecEvaluate *)

Reported == ePc = "done"

\* the report has the flag among ruleBasedFlags and as the code of an issue
HasFlag(flag) ==
    /\ InSeq(flag, Val(eOut).ruleBasedFlags)
    /\ \E i \in 1..Len(Val(eOut).issues) : Val(eOut).issues[i].code = flag

EvaluateTexts == OriginalTexts \cup SimplifiedTexts

\* what the extraction rules find in a text as it is written
LiteralAmounts == [t \in EvaluateTexts |-> Range(extract_amounts(t))]
LiteralDates == [t \in EvaluateTexts |-> Range(extract_dates(t))]

\* every value of table[original] that table[rewrite] lacks is flagged with
\* the code, and a report with such a value is not safe
MissingAreFlagged(table, code) ==
    LET missing == table[eIn.original.normalizedText]
                     \ table[eIn.simplification.simplifiedText]
    IN /\ \A v \in missing : HasFlag(code \o ":" \o v)
       /\ missing # {} => ~Val(eOut).isSafe

\* C11: every amount and every date that the extraction rules find
\* in the original normalized text and not in the rewritten text appears in
\* the report as MISSING_AMOUNT:<value> / MISSING_DATE:<value>, carrying the
\* value as it is written in the original, and the report is not safe.
C11_MissingValueFlaggedAsWritten ==
    Reported =>
        /\ MissingAreFlagged(LiteralAmounts, "MISSING_AMOUNT")
        /\ MissingAreFlagged(LiteralDates, "MISSING_DATE")

\* what the extraction rules find as deadlines in a text as it is written
LiteralDeadlines == [t \in EvaluateTexts |-> Range(extract_deadlines(t))]

EndsWith(s, suffix) ==
    Len(s) >= Len(suffix) /\ SubSeq(s, Len(s) - Len(suffix) + 1, Len(s)) = suffix

\* C12: for every deadline expression present in the original text and
\* absent from the rewritten text, the report has a flag whose code begins
\* with MISSING_ and that carries the deadline text as it appears in the
\* original.
C12_MissingDeadlineFlaggedAsMissing ==
    Reported =>
        \A v \in LiteralDeadlines[eIn.original.normalizedText]
                   \ LiteralDeadlines[eIn.simplification.simplifiedText] :
            \E i \in 1..Len(Val(eOut).ruleBasedFlags) :
                /\ StartsWith(Val(eOut).ruleBasedFlags[i], "MISSING_")
                /\ EndsWith(Val(eOut).ruleBasedFlags[i], ":" \o v)

\* an external verdict was obtained: llm_output is not None
HasExternalVerdict == ~IsNone(eLlm)

\* C13: in every report, isSafe is true exactly when the issues list is
\* empty and the external safety flag, if an external verdict was obtained,
\* is true.
C13_SafeIffNoIssuesAndExternalFlag ==
    Reported =>
        (Val(eOut).isSafe <=>
            /\ Val(eOut).issues = << >>
            /\ (HasExternalVerdict => Val(eLlm).is_safe))

\* C13 witness: a report with a rule-based flag whose external verifier
\* answered is_safe = true without warnings, and which is not safe.
C13_RuleFlagOverridesExternalSafe ==
    /\ Reported
    /\ HasExternalVerdict
    /\ Val(eLlm).is_safe
    /\ Val(eLlm).warnings = << >>
    /\ Val(eOut).ruleBasedFlags # << >>
    /\ ~Val(eOut).isSafe

\* the external verification failed: the call raised LLMClientError, or its
\* output could not be parsed
ExternalVerificationFailed == eFail \in {"call_client_error", "unparseable"}

\* C14: when the external verification fails (call error or unparseable
\* output) the report holds only rule-based issues - no LLM_WARNING issue
\* and no llmVerdict - and isSafe is decided by the rule-based flags alone.
C14_FailedVerificationOmitted ==
    (Reported /\ ExternalVerificationFailed) =>
        /\ \A i \in 1..Len(Val(eOut).issues) : Val(eOut).issues[i].code # "LLM_WARNING"
        /\ IsNone(Val(eOut).llmVerdict)
        /\ Val(eOut).isSafe <=> (Val(eOut).ruleBasedFlags = << >>)

\* the rewrite carries a decision, as a dict or as an object
HasDecision == eIn.simplification.decisionFallo.form \in {"dict", "object"}

\* a value of the rewrite's decision, read as the check reads it: stripped,
\* lower-cased, 'desconocido' when empty
RewriteValue(v) ==
    IF Lower(Strip(OrEmpty(v))) = "" THEN "desconocido" ELSE Lower(Strip(OrEmpty(v)))

RewriteWinner == RewriteValue(eIn.simplification.decisionFallo.whoWins)
RewriteCosts == RewriteValue(eIn.simplification.decisionFallo.costs)

\* C15: whenever the original operative clause yields a detectable winner
\* (respectively costs), the report has FALLO_POLARITY_MISMATCH (respectively
\* FALLO_COSTS_MISMATCH) exactly when the rewrite's decision has a different
\* winner (respectively costs), 'desconocido' included.
C15_OutcomeMismatchFlagged ==
    (Reported /\ HasDecision) =>
        /\ eRules.locals.orig_winner # "desconocido" =>
              (InSeq("FALLO_POLARITY_MISMATCH", Val(eOut).ruleBasedFlags)
                 <=> NormWinner(RewriteWinner) # NormWinner(eRules.locals.orig_winner))
        /\ eRules.locals.orig_costs # "desconocido" =>
              (InSeq("FALLO_COSTS_MISMATCH", Val(eOut).ruleBasedFlags)
                 <=> RewriteCosts # eRules.locals.orig_costs)

\* the winner the rewrite's decision states is 'desconocido'
RewriteWinnerUnknown ==
    Lower(OrEmpty(eIn.simplification.decisionFallo.whoWins)) = "desconocido"

\* the prose of the guide holds a phrase of the fixed list
GuideAssertsVictory ==
    \E phrase \in VictoryPhrases :
        Contains(Lower(eIn.legal_guide.meaningForYou \o " " \o eIn.legal_guide.whatToDoNow),
                 phrase)

\* C16: when the rewrite's winner is 'desconocido' and the prose for the
\* user holds a victory or defeat phrase of the fixed list, the report has
\* GUIDE_ASSERTS_VICTORY_WITHOUT_FALLO and is not safe; when the winner is
\* known the flag is not raised.
C16_VictoryWithoutRulingFlagged ==
    (Reported /\ HasDecision) =>
        /\ (RewriteWinnerUnknown /\ GuideAssertsVictory) =>
              (HasFlag("GUIDE_ASSERTS_VICTORY_WITHOUT_FALLO") /\ ~Val(eOut).isSafe)
        /\ ~RewriteWinnerUnknown =>
              ~InSeq("GUIDE_ASSERTS_VICTORY_WITHOUT_FALLO", Val(eOut).ruleBasedFlags)

\* the document carries no operative clause in metadata.extra
NoOperativeClause == IsNone(eIn.original.falloLiteral)

\* C30: for every document whose metadata carries no operative clause, the
\* report has MISSING_FALLO_LITERAL and isSafe is false, whatever the
\* rewrite contains and whatever the external verifier answers.
C30_NoClauseNeverSafe ==
    (Reported /\ NoOperativeClause) =>
        /\ HasFlag("MISSING_FALLO_LITERAL")
        /\ ~Val(eOut).isSafe

\* C30 witness: a document without operative clause whose rewrite keeps
\* every amount, date and deadline and whose verifier answers is_safe =
\* true: MISSING_FALLO_LITERAL is the only flag and the report is not safe.
C30_OnlyTheClauseIsMissing ==
    /\ Reported
    /\ NoOperativeClause
    /\ HasExternalVerdict
    /\ Val(eLlm).is_safe
    /\ Val(eOut).ruleBasedFlags = << "MISSING_FALLO_LITERAL" >>
    /\ ~Val(eOut).isSafe

\* the rewrite's decision is exactly what SimplificationService derives
\* from the document's operative clause
DecisionIsDerivedFromClause ==
    eIn.simplification.decisionFallo = DerivedDecision(eIn.original.falloLiteral)

\* C29: when the rewrite's decision (whoWins, costs) is exactly what
\* SimplificationService derives from the operative clause, the report of
\* SafetyCheckService for the same clause has neither
\* FALLO_POLARITY_MISMATCH nor FALLO_COSTS_MISMATCH.
C29_DerivedDecisionRaisesNoMismatch ==
    (Reported /\ DecisionIsDerivedFromClause) =>
        /\ ~InSeq("FALLO_POLARITY_MISMATCH", Val(eOut).ruleBasedFlags)
        /\ ~InSeq("FALLO_COSTS_MISMATCH", Val(eOut).ruleBasedFlags)

----------------------------------------------------------------------------
(* Properties of NormalizationService, checked under SpecNormalize *)

\* raw text that is empty or whitespace only
IsBlank(s) == \A i \in 1..Len(s) : IsSpace(Char(s, i))

Normalized == nPc = "returned"

NormalizedText == Val(nOut).normalizedText

\* C21: normalize fails with an error, and returns no SegmentedDocument,
\* whenever the raw text is blank (empty or whitespace only): once the
\* empty-input check is passed, a blank text has raised.
C21_BlankRawTextRejected ==
    (nPc \in {"cleaned", "returned", "raised"} /\ IsBlank(nIn.rawText)) =>
        /\ nPc = "raised"
        /\ ~IsNone(nErr)
        /\ IsNone(nOut)

\* C22: no stage writes into the output of its predecessor: every step of
\* normalize leaves the IngestResult it was given (rawText, metadata and
\* metadata.extra) as it was, and the steps of classify, simplify and
\* evaluate leave the documents they were given as they were.
C22_StagesLeaveTheirInputAlone ==
    [][nIn' = nIn /\ cDoc' = cDoc /\ sDoc' = sDoc /\ eIn' = eIn]_vars

\* the positions where an anchor word stands at the start of a line (after
\* optional whitespace) and is followed by ":" or whitespace
AnchorPositions(t) ==
    {k \in 1..Len(t) :
        /\ \E p \in 0..(k - 1) :
            /\ (p = 0 \/ Char(t, p) = "\n")
            /\ \A q \in (p + 1)..(k - 1) : IsSpace(Char(t, q))
        /\ \E a \in AnchorWords :
            /\ k + Len(a) <= Len(t)
            /\ Upper(SubSeq(t, k, k + Len(a) - 1)) = a
            /\ Char(t, k + Len(a)) \in {":", " ", "\t", "\r", "\n"}}

FirstAnchor(t) == CHOOSE k \in AnchorPositions(t) : \A j \in AnchorPositions(t) : k <= j

\* C23: extract_fallo_literal returns None exactly when the normalized text
\* has no anchor; otherwise it returns a non-empty literal substring of the
\* normalized text that starts at the first anchor; it never returns "".
C23_ClauseIsNoneOrLiteralFromFirstAnchor ==
    Normalized =>
        /\ IsNone(nFallo) <=> AnchorPositions(Val(nClean)) = {}
        /\ ~IsNone(nFallo) =>
            /\ Val(nFallo) # ""
            /\ Slice(Val(nClean), FirstAnchor(Val(nClean)),
                     FirstAnchor(Val(nClean)) + Len(Val(nFallo)) - 1) = Val(nFallo)

\* C23 witness: a clause found after leading text and cut at a heading
C23_ClauseBetweenTextAndHeading ==
    /\ Normalized
    /\ ~IsNone(nFallo)
    /\ FirstAnchor(Val(nClean)) > 1
    /\ FirstAnchor(Val(nClean)) + Len(Val(nFallo)) - 1 < Len(Val(nClean))

\* a line of t that holds digits only
HasDigitLine(t) ==
    \E i \in 1..Len(Split(t)) : IsDigitString(Split(t)[i])

\* C27: for every non-blank raw text the normalized text has no run of 3 or
\* more newlines, no run of 2 or more spaces or tabs, no "\r\n" and no
\* line made of digits only.
C27_NormalizedTextIsClean ==
    (Normalized /\ ~IsBlank(nIn.rawText)) =>
        /\ ~Contains(NormalizedText, "\n\n\n")
        /\ \A i \in 1..(Len(NormalizedText) - 1) :
            ~(Char(NormalizedText, i) \in {" ", "\t"}
              /\ Char(NormalizedText, i + 1) \in {" ", "\t"})
        /\ ~Contains(NormalizedText, "\r\n")
        /\ ~HasDigitLine(NormalizedText)

\* the positions of the upper-cased text u where a keyword of the entry occurs
KeywordPositions(u, entry) ==
    {i \in 1..Len(u) :
        \E k \in 1..Len(entry.keywords) :
            Slice(u, i, i + Len(entry.keywords[k]) - 1) = entry.keywords[k]}

\* per section name, the earliest occurrence of one of its keywords in t
\* whatever the case of the letters, 0 when there is none
MarkerTable(t) ==
    [name \in {SECTION_KEYWORDS[e].name : e \in 1..Len(SECTION_KEYWORDS)} |->
        \* the entry of that name, and the least of its positions
        IF \A e \in 1..Len(SECTION_KEYWORDS) :
                SECTION_KEYWORDS[e].name = name
                    => KeywordPositions(Upper(t), SECTION_KEYWORDS[e]) = {}
        THEN 0
        ELSE CHOOSE i \in 1..Len(t) :
                \E e \in 1..Len(SECTION_KEYWORDS) :
                    /\ SECTION_KEYWORDS[e].name = name
                    /\ i \in KeywordPositions(Upper(t), SECTION_KEYWORDS[e])
                    /\ \A j \in KeywordPositions(Upper(t), SECTION_KEYWORDS[e]) : i <= j]

NoMarker(mk) == \A name \in DOMAIN mk : mk[name] = 0

\* one section per section name present, by strictly increasing marker
OneSectionPerNameInOrder(mk, sections) ==
    /\ \A name \in DOMAIN mk :
        Cardinality({i \in 1..Len(sections) : sections[i].name = name})
            = IF mk[name] = 0 THEN 0 ELSE 1
    /\ \A i \in 1..Len(sections) : sections[i].name \in DOMAIN mk
    /\ \A i \in 1..(Len(sections) - 1) :
        mk[sections[i].name] < mk[sections[i + 1].name]

\* the text from the marker of section i up to the next marker or the end
SpanOfSection(t, mk, sections, i) ==
    Slice(t, mk[sections[i].name],
          (IF i < Len(sections) THEN mk[sections[i + 1].name] ELSE Len(t) + 1) - 1)

TheOnlySectionIsBody(sections) ==
    /\ Len(sections) = 1
    /\ sections[1].name = "CUERPO"
    /\ sections[1].confidence = BodyConfidence

SectionsTile(t, mk, sections) ==
    IF NoMarker(mk) THEN TheOnlySectionIsBody(sections)
    ELSE /\ OneSectionPerNameInOrder(mk, sections)
         /\ \A i \in 1..Len(sections) :
             sections[i].content = Some(SpanOfSection(t, mk, sections, i))

SectionsAreStrippedSpans(t, mk, sections) ==
    IF t = "" THEN sections = << >>
    ELSE IF NoMarker(mk)
    THEN /\ TheOnlySectionIsBody(sections)
         /\ sections[1].content = Some(Strip(t))
    ELSE /\ OneSectionPerNameInOrder(mk, sections)
         /\ \A i \in 1..Len(sections) :
             /\ sections[i].content = Some(Strip(SpanOfSection(t, mk, sections, i)))
             /\ sections[i].confidence = SnippetConfidence

\* C28 as stated: with a keyword, one section per section name present, by
\* strictly increasing marker, each holding exactly the text from its
\* marker to the next, so that the sections tile the text from the first
\* marker on; without a keyword, exactly one section CUERPO at 0.3.
C28_SectionsTileTheText ==
    Normalized =>
        \E mk \in {MarkerTable(NormalizedText)} :
            SectionsTile(NormalizedText, mk, Val(nOut).sections)

\* C28 as amended: each section holds the text from its marker to the next
\* with the whitespace around it stripped; an empty text has no section
\* and a non-empty text without keyword has the one section CUERPO at 0.3.
C28_SectionsAreStrippedSpans ==
    Normalized =>
        \E mk \in {MarkerTable(NormalizedText)} :
            SectionsAreStrippedSpans(NormalizedText, mk, Val(nOut).sections)

\* C28 witness: two sections found in the opposite order of the keyword
\* table, the first one ending in whitespace that its content leaves out
C28_PetitionBeforeHeaderWithGap ==
    /\ Normalized
    /\ Len(Val(nOut).sections) = 3
    /\ Val(nOut).sections[1].name = "PETICIONES"
    /\ Val(nOut).sections[2].name = "ENCABEZADO"
    /\ Val(nOut).sections[1].content = Some("suplico al")

----------------------------------------------------------------------------
(* Properties of LLMClient, checked under SpecClient *)

\* the operations whose outcome is the outcome of the call of the capability
ChatCalled ==
    ~IsNone(lIn) /\ lIn.op \in {"_chat", "callSimplifier"} /\ lPc = "done" /\ lPosts > 0

\* the attempts a call with the configured retry count may make
Attempts == 1..(1 + lIn.settings.llm_retries)

\* C24: a call of the external capability makes at most 1 + llm_retries
\* requests, and it fails only when every one of these attempts fails: a
\* call whose retry would succeed returns.
C24_FailsOnlyAfterLastRetry ==
    ChatCalled =>
        /\ lPosts <= 1 + lIn.settings.llm_retries
        /\ (\E k \in Attempts : chat_once(lIn.replies[k]).kind = "returned")
               => Val(lOut).kind = "returned"

ClassifierGotNoJson ==
    /\ ~IsNone(lIn) /\ lIn.op = "callClassifier" /\ lPc = "done" /\ lPosts > 0
    /\ chat_once(lIn.replies[1]).kind = "returned"
    /\ json_loads(chat_once(lIn.replies[1]).value).kind # "dict"

\* C26: when the external capability answers the classification request
\* with text that holds no JSON object, the classification operation raises
\* LLMClientError and returns no classification.
C26_NoJsonRaisesParseError ==
    ClassifierGotNoJson => Val(lOut) = Raises("LLMClientError")

----------------------------------------------------------------------------
(* Properties of process_document_endpoint, checked under SpecPipeline *)

\* C25: after ingestion and normalization, whatever the external capability
\* does at the classification, rewriting, guide or verification stage, no
\* stage aborts the request: the stages run in order up to the response.
C25_CapabilityFailureNeverAborts == pPc # "aborted"

====
